---- MODULE Spec2Model ----
(***************************************************************************)
(* A state-machine model of the WebRTC SFU server: the peer registry       *)
(* (server/src/storage.rs), the grabber and player signaling handlers      *)
(* (server/src/handlers/grabber.rs, player.rs), the SFU facade             *)
(* (local/src/sfu.rs), the sessions (local/src/session.rs) and the track   *)
(* broadcasters (local/src/broadcaster.rs).                                *)
(*                                                                         *)
(* Every handler is a task; an action is the code such a task runs between *)
(* two suspension points (.await on the WebRTC stack or on the socket).    *)
(* Reference-counted objects (Arc) carry the set of their strong holders.  *)
(***************************************************************************)
EXTENDS Integers, Sequences, FiniteSets, TLC

\* ---------------------------------------------------------------- bounds
\* Socket session ids: "grabber-{addr}" and "player-{addr}".
Grabbers == {"g1", "g2"}
Players == {"p1", "p2"}
\* Registration labels, the {name} of /grabber/{name}.
Names == {"alice", "bob"}
\* Ids of the remote tracks a grabber's peer connection may deliver.
TrackIds == {"video", "audio"}

\* performance.max_publishers of the configuration, scaled down.
max_publishers == 1
\* performance.max_subscribers_per_publisher of the configuration, scaled down.
max_subscribers_per_publisher == 1
\* OFFER / OFFER_ANSWER messages one socket sends at most.
MaxOffers == 2
\* RTP packets one producer task reads at most.
MaxPackets == 1
\* GRABBER_ICE / PLAYER_ICE messages one socket sends at most.
MaxIces == 1
MaxPongs == 1
MaxServerIce == 1
\* performance.broadcast_channel_capacity of the configuration, scaled down.
broadcast_channel_capacity == 2
\* RTP packets the producer task of a lagging scenario reads at most.
MaxRead == 13
\* RTP packets the producer task of a fan-out scenario reads at most.
MaxFan == 4
\* The last tick of the clock.
MaxTime == 6
\* Keyframe requests the subscribers' RTCP readers keep in the inbox at most.
MaxInbox == 2
\* The largest connectionsCount a PING message carries.
MaxConnections == 2
\* The worker threads of the runtime #[tokio::main] builds: one per core.
worker_threads == 1
\* Duration::from_millis(500) between two PLIs, in ticks.
PliMinInterval == 5
\* Duration::from_millis(300) between two requests of a burst, in ticks.
RetrySleep == 3

NoObj == <<>>
NoPeer == [name |-> "", socket_id |-> "", connections |-> 0]

VARIABLES
    peers,        \* Storage.peers: the registry, a set of PeerStatus entries
    gpc,          \* grabber handler: its position
    gname,        \* grabber handler: the name of its URL path
    gout,         \* grabber WsSession: the messages enqueued on its sender, in order
    goffers,      \* grabber socket: OFFER / OFFER_ANSWER messages received so far
    gin,          \* grabber socket: the last inbound message the loop took
    glog,         \* the grabber sockets accepted so far, in the order they registered
    gices,        \* grabber socket: GRABBER_ICE messages received so far
    gret,         \* grabber handler: what its last call (message or SFU) returned
    gres,         \* grabber handler: what handle_grabber_connection returned
    gws,          \* grabber WsSession: its channel, its writer task and the socket
    psess,        \* the Arc<PublisherSession> objects ever created, by object id
    publishers,   \* LocalSfu.publishers: publisher id -> session object
    metrics,      \* LocalSfu.metrics: the "publishers" and "subscribers" counters
    ppc,          \* player handler: its position
    pfirst,       \* player socket: what its first inbound message was
    pout,         \* player WsSession: the messages enqueued on its sender, in order
    poffers,      \* player socket: OFFER messages received so far
    pin,          \* player socket: the last inbound message the loop took
    pcall,        \* player handler: the locals of its add_subscriber call in flight
    pices,        \* player socket: PLAYER_ICE messages received so far
    pret,         \* player handler: what its last call (message or SFU) returned
    pres,         \* player handler: what handle_player_connection returned
    pws,          \* player WsSession: its channel, its writer task and the socket
    ssess,        \* the Arc<SubscriberSession> objects ever created, by object id
    subscribers,  \* LocalSfu.subscribers: subscriber id -> session object
    tasks,        \* the consumer tasks ever spawned, by task id
    sent,         \* packets each producer task has published to its channel
    upd,          \* the update_publisher call in flight: its position and locals
    bcast,        \* per TrackBroadcaster: producer task, PLI inbox, PLI task, log
    now           \* the monotonic clock (Instant::now), in ticks of 100 ms

gvars == <<gpc, gname, gout, goffers, gin, glog, gices, gret, gres, gws>>
pvars == <<ppc, pfirst, pout, poffers, pin, pcall, pices, pret, pres, pws>>
sfuvars == <<psess, publishers, metrics, ssess, subscribers, tasks, sent>>
bvars == <<upd, bcast, now>>
vars == <<peers, gvars, pvars, sfuvars, bvars>>

\* ------------------------------------------------------- the peer registry
\* A registry whose add keeps the entry a name already has (entry().or_insert
\* in place of insert).
add_peer_keep_first(P, name, socket_id) ==
    IF \E e \in P : e.name = name
    THEN P
    ELSE P \cup {[name |-> name, socket_id |-> socket_id, connections |-> 0]}

\* A registry whose removal retains the entries of the socket and drops the
\* others (the retain predicate inverted).
remove_peer_retain_inverted(P, socket_id) ==
    {e \in P : e.socket_id = socket_id}

\* DashMap::insert: the entry under the key is replaced; the new PeerStatus
\* has connections 0.
add_peer(P, name, socket_id) ==
    {e \in P : e.name # name} \cup {[name |-> name, socket_id |-> socket_id, connections |-> 0]}

get_peer_by_name(P, name) ==
    IF \E e \in P : e.name = name
    THEN CHOOSE e \in P : e.name = name
    ELSE NoPeer

remove_peer_by_socket_id(P, socket_id) ==
    {e \in P : e.socket_id # socket_id}

\* An update_ping that refreshes every entry of the registry.
update_ping_every_entry(P, socket_id, connections) ==
    {[e EXCEPT !.connections = connections] : e \in P}

\* Storage::update_ping: the first entry whose socket_id is the given one gets
\* the connections count of the PING (with it stream_types, last_ping and
\* online), and the scan stops.
update_ping(P, socket_id, connections) ==
    IF \E e \in P : e.socket_id = socket_id
    THEN LET hit == CHOOSE e \in P : e.socket_id = socket_id
         IN (P \ {hit}) \cup {[hit EXCEPT !.connections = connections]}
    ELSE P

\* ------------------------------------------------------------ the SFU maps
\* DashMap::len of the publishers map.
publishers_len(pubs) == Cardinality({g \in Grabbers : pubs[g] # NoObj})

\* A limit check that admits one publisher more than the limit.
check_publisher_limit_off_by_one(pubs) == publishers_len(pubs) <= max_publishers

check_publisher_limit(pubs) == publishers_len(pubs) < max_publishers

\* DashMap::len of the subscribers map.
subscribers_len(subs) == Cardinality({p \in Players : subs[p] # NoObj})

\* LocalSfu::update_metrics: the counter never goes below zero.
update_metrics(m, key, delta) ==
    [m EXCEPT ![key] = IF @ + delta < 0 THEN 0 ELSE @ + delta]

\* A DashMap Ref into the publishers map is held, across its awaits, by an
\* add_subscriber call from its lookup of the publisher until it returns, and
\* by an update_publisher call likewise.
RefHeld(g) ==
    \/ \E p \in Players : ppc[p] \in {"as_newpc", "as_attach", "as_sdp"}
                          /\ pcall[p].publisher_id = g
    \/ upd.pc = "sdp" /\ upd.id = g

\* A handler whose remove_publisher found the entry of its key locked waits
\* inside DashMap::remove, which parks the worker thread it runs on; a task
\* suspended at an await is resumed only by a worker thread that is not
\* parked.
BlockedThreads == Cardinality({g \in Grabbers : gpc[g] = "rp_blocked"})

WorkerFree == BlockedThreads < worker_threads

\* An Arc<PublisherSession> loses one strong holder; with none left it is
\* dropped (impl Drop for PublisherSession: the close of its peer connection is
\* spawned, and its broadcasters map is dropped with it).
ReleasePub(s, h) ==
    LET hs == s.holders \ {h}
    IN [s EXCEPT !.holders = hs,
                 !.dropped = (hs = {}),
                 !.pc = IF hs = {} /\ @ \in {"open", "failed"} THEN "closing" ELSE @]

\* impl Drop for TrackBroadcaster: the consumer tasks of the broadcasters of a
\* dropped session are aborted.
AbortTasksOf(T, ps) ==
    [k \in DOMAIN T |->
        IF T[k].obj \in DOMAIN ps /\ ps[T[k].obj].dropped /\ T[k].state = "running"
        THEN [T[k] EXCEPT !.state = "aborted"]
        ELSE T[k]]

\* The session object the n-th OFFER of grabber g creates.
PubObj(g, n) == <<g, n>>

\* PublisherSession::new inside add_publisher: the local `session`, and
\* `session_clone` moved into the on_track closure the peer connection owns.
NewPublisherSession ==
    [holders |-> {"local", "on_track"}, broadcasters |-> {},
     dropped |-> FALSE, pc |-> "open", removed |-> FALSE]

\* The strong holders of the Arc<RTCPeerConnection> of a publisher: its
\* session, the broadcasters of that session, the task that closes the
\* connection of a dropped session, and the on_track closure (pc_for_pli),
\* which the connection itself owns.
PublisherPcHolders(s) ==
    (IF s.dropped THEN {} ELSE {"session"} \cup s.broadcasters)
    \cup (IF s.pc = "closing" THEN {"close_task"} ELSE {})
    \cup {"on_track"}

\* The ICE candidate channel of a publisher is closed once its only sender,
\* moved into the on_ice_candidate closure that the connection owns, is
\* dropped with the connection; the forwarder task of the handler ends then.
PublisherIceClosed(s) == PublisherPcHolders(s) = {}

\* The strong holders of the Arc<RTCPeerConnection> of a subscriber: its
\* session until it is dropped, then the task that closes the connection.
SubscriberPcHolders(s) ==
    IF s.pc \in {"open", "failed"} THEN {"session"}
    ELSE IF s.pc = "closing" THEN {"close_task"}
    ELSE {}

SubscriberIceClosed(s) == SubscriberPcHolders(s) = {}

\* The last update_publisher / update_subscriber call: which, its position,
\* its request id, the session its Ref points to and what it returned.
Update(op, pc, id, obj, ret) ==
    [op |-> op, pc |-> pc, id |-> id, obj |-> obj, ret |-> ret]
NoUpdate == Update("", "idle", "", NoObj, "")

RECURSIVE Pow2From(_, _)
Pow2From(p, n) == IF p >= n THEN p ELSE Pow2From(2 * p, n)

\* usize::next_power_of_two, which broadcast::channel applies to its capacity:
\* the number of the newest packets the channel retains.
next_power_of_two(n) == Pow2From(1, n)

\* TrackBroadcaster::new: the producer task reads, the inbox of keyframe
\* requests is empty, last_pli_time is None (-1), the PLI task waits on the
\* inbox, and no PLI has been written.
NewBroadcaster ==
    [read_task |-> "running", inbox |-> 0, last_pli_time |-> -1,
     pli_task |-> "idle", plis |-> <<>>]

\* -------------------------------------------------------------- messages
NoMsg == [event |-> ""]

\* Inbound OFFER / OFFER_ANSWER messages of a grabber: with or without the
\* offer (or answer) field, its SDP parsing or not.
GrabberOffers ==
    {[event |-> e, data |-> d, sdp_ok |-> s] :
        e \in {"OFFER", "OFFER_ANSWER"}, d \in BOOLEAN, s \in BOOLEAN}

\* Inbound OFFER messages of a player: the offer field may be missing, and so
\* may its peerName ("" here).
PlayerOffers ==
    {[event |-> "OFFER", data |-> d, peer_name |-> n, sdp_ok |-> s] :
        d \in BOOLEAN, n \in Names \cup {""}, s \in BOOLEAN}

\* What a player socket yields first: a frame (text or not), the end of the
\* stream, a read error, or nothing within the timeout. A text frame decodes
\* to a PlayerMessage or does not; cred is the playerAuth credential, "" when
\* the field is absent.
AuthInputs ==
    {[frame |-> "text", decodes |-> TRUE, event |-> e, cred |-> c] :
        e \in {"AUTH", "OFFER"}, c \in {"", "test"}}
    \cup {[frame |-> f, decodes |-> FALSE, event |-> "", cred |-> ""] :
        f \in {"text", "binary", "end", "error", "timeout"}}

\* Inbound text PING messages of a grabber: without the ping field, or with
\* one whose connectionsCount is absent (0) or given.
GrabberPings == {[event |-> "PING", ping |-> FALSE, connections |-> 0]}
                \cup {[event |-> "PING", ping |-> TRUE, connections |-> c] :
                          c \in 0..MaxConnections}

\* Inbound PLAYER_ICE messages: with or without the ice field.
PlayerIces == {[event |-> "PLAYER_ICE", data |-> d] : d \in BOOLEAN}

\* Inbound text frames the loops do not act on: a message with an event
\* string no arm of the match names, and a text that does not decode.
OtherTexts == {[event |-> "BOGUS", decodes |-> TRUE],
               [event |-> "", decodes |-> FALSE]}

Send(q, event) == Append(q, event)

\* ------------------------------------------------------------ the WsSession
\* WsSession::new: an unbounded channel, a writer task that owns its receiving
\* end, and what the writer has written to the WebSocket so far.
NewWs == [chan |-> <<>>, wire |-> <<>>, writer |-> "running"]

\* UnboundedSender::send fails once the receiving end is gone, that is once
\* the writer task has ended.
CanSend(w) == w.writer = "running"

\* send_json / send_text on the channel: the message is queued, or the call
\* returns Err(WebSocket) and queues nothing.
ws_send(w, event) ==
    IF CanSend(w) THEN [w EXCEPT !.chan = Send(@, event)] ELSE w

\* The same call on the log of the messages the handler has enqueued.
log_send(q, w, event) == IF CanSend(w) THEN Send(q, event) ELSE q

\* A writer task that takes the newest queued message instead of the oldest.
ws_write_newest_first(w, ok) ==
    IF ok
    THEN [w EXCEPT !.chan = SubSeq(@, 1, Len(@) - 1),
                   !.wire = Append(@, w.chan[Len(w.chan)])]
    ELSE [w EXCEPT !.chan = <<>>, !.writer = "ended"]

\* One turn of the writer task: rx.recv() yields the oldest queued message
\* and ws_sender.send writes it, or fails, which ends the task and drops the
\* channel with what it still holds.
ws_write(w, ok) ==
    IF ok
    THEN [w EXCEPT !.chan = Tail(@), !.wire = Append(@, Head(w.chan))]
    ELSE [w EXCEPT !.chan = <<>>, !.writer = "ended"]

\* How many times the event was enqueued on a socket.
Occurrences(q, event) == Cardinality({i \in 1..Len(q) : q[i] = event})

\* A receive loop that breaks when the handling of a message returns an error.
after_message_breaks(kind) == IF kind = "Ok" THEN "loop" ELSE "cleanup"

\* The receive loops after handle_grabber_message / handle_player_message
\* returned: an error is logged, and the loop goes on either way.
after_message(kind) == "loop"

\* What a call returned: Ok or the kind of its error, with the limit an
\* Internal error names in its message.
Ret(op, kind) == [op |-> op, kind |-> kind, limit |-> ""]
NoRet == Ret("", "")

\* ------------------------------------------------------ the grabber handler
\* handle_grabber_connection up to its receive loop: register, send INIT_PEER;
\* a failed send returns its error at once.
GrabberConnect(g, name) ==
    /\ gpc[g] = "idle"
    /\ peers' = add_peer(peers, name, g)
    /\ gname' = [gname EXCEPT ![g] = name]
    /\ glog' = Append(glog, g)
    /\ gout' = [gout EXCEPT ![g] = log_send(@, gws[g], "INIT_PEER")]
    /\ gws' = [gws EXCEPT ![g] = ws_send(@, "INIT_PEER")]
    /\ IF CanSend(gws[g])
       THEN /\ gpc' = [gpc EXCEPT ![g] = "loop"]
            /\ UNCHANGED gres
       ELSE /\ gpc' = [gpc EXCEPT ![g] = "failed"]
            /\ gres' = [gres EXCEPT ![g] = "WebSocket"]
    /\ UNCHANGED <<goffers, gin, gices, gret, pvars, sfuvars>>
    /\ UNCHANGED bvars

\* handle_publisher_offer up to the first await of add_publisher: the offer
\* data and the SDP are checked, then check_publisher_limit.
GrabberOffer(g, msg, maxOffers) ==
    /\ gpc[g] = "loop"
    /\ goffers[g] < maxOffers
    /\ goffers' = [goffers EXCEPT ![g] = @ + 1]
    /\ gin' = [gin EXCEPT ![g] = msg]
    /\ IF ~msg.data \/ ~msg.sdp_ok
       THEN \* Err(InvalidMessageFormat), logged by the receive loop
            /\ gret' = [gret EXCEPT ![g] = Ret("handle_publisher_offer",
                                               "InvalidMessageFormat")]
            /\ UNCHANGED <<gpc, gout, gws>>
       ELSE IF check_publisher_limit(publishers)
       THEN /\ gpc' = [gpc EXCEPT ![g] = "ap_newpc"]
            /\ UNCHANGED <<gout, gws, gret>>
       ELSE \* Err(Internal) of check_publisher_limit
            /\ gret' = [gret EXCEPT ![g] =
                           [Ret("add_publisher", "Internal")
                               EXCEPT !.limit = <<"publisher", max_publishers>>]]
            /\ gout' = [gout EXCEPT ![g] = log_send(@, gws[g], "OFFER_FAILED")]
            /\ gws' = [gws EXCEPT ![g] = ws_send(@, "OFFER_FAILED")]
            /\ UNCHANGED gpc
    /\ UNCHANGED <<peers, gname, glog, gices, gres, pvars, sfuvars>>
    /\ UNCHANGED bvars

\* add_publisher: new_peer_connection returns; the session and the callbacks
\* are created.
AddPublisherNewPc(g, ok) ==
    /\ gpc[g] = "ap_newpc"
    /\ IF ok
       THEN /\ psess' = psess @@ (PubObj(g, goffers[g]) :> NewPublisherSession)
            /\ gpc' = [gpc EXCEPT ![g] = "ap_sdp"]
            /\ UNCHANGED <<gout, gws, gret>>
       ELSE /\ gret' = [gret EXCEPT ![g] = Ret("add_publisher",
                                               "PeerConnectionCreation")]
            /\ gout' = [gout EXCEPT ![g] = log_send(@, gws[g], "OFFER_FAILED")]
            /\ gws' = [gws EXCEPT ![g] = ws_send(@, "OFFER_FAILED")]
            /\ gpc' = [gpc EXCEPT ![g] = "loop"]
            /\ UNCHANGED psess
    /\ UNCHANGED <<peers, gname, goffers, gin, glog, gices, gres, pvars,
                   publishers, metrics, ssess, subscribers, tasks, sent>>
    /\ UNCHANGED bvars

\* add_publisher: the SDP exchange returns; on success the session is inserted
\* under the publisher id (replacing the entry there), the counter is raised
\* and ANSWER is sent. The insert takes the write lock of the entry.
AddPublisherFinish(g, ok) ==
    LET o == PubObj(g, goffers[g])
        old == publishers[g]
    IN
    /\ gpc[g] = "ap_sdp"
    /\ IF ok
       THEN /\ ~RefHeld(g)
            /\ publishers' = [publishers EXCEPT ![g] = o]
            /\ psess' = [x \in DOMAIN psess |->
                           IF x = o
                           THEN [psess[o] EXCEPT !.holders = (@ \ {"local"}) \cup {"map"}]
                           ELSE IF x = old THEN ReleasePub(psess[x], "map")
                           ELSE psess[x]]
            /\ tasks' = AbortTasksOf(tasks, psess')
            /\ metrics' = update_metrics(metrics, "publishers", 1)
            /\ gret' = [gret EXCEPT ![g] = Ret("add_publisher", "Ok")]
            /\ gout' = [gout EXCEPT ![g] = log_send(@, gws[g], "ANSWER")]
            /\ gws' = [gws EXCEPT ![g] = ws_send(@, "ANSWER")]
       ELSE /\ psess' = [psess EXCEPT ![o] = ReleasePub(@, "local")]
            /\ tasks' = AbortTasksOf(tasks, psess')
            /\ gret' = [gret EXCEPT ![g] = Ret("add_publisher",
                                               "SetRemoteDescription")]
            /\ gout' = [gout EXCEPT ![g] = log_send(@, gws[g], "OFFER_FAILED")]
            /\ gws' = [gws EXCEPT ![g] = ws_send(@, "OFFER_FAILED")]
            /\ UNCHANGED <<publishers, metrics>>
    /\ gpc' = [gpc EXCEPT ![g] = "loop"]
    /\ UNCHANGED <<peers, gname, goffers, gin, glog, gices, gres, pvars, ssess,
                   subscribers, sent>>
    /\ UNCHANGED bvars

\* LocalSfu::add_publisher_ice: the session is looked up (PublisherNotFound
\* without one) and the candidate handed to its peer connection, which takes
\* it or not.
add_publisher_ice(pubs, id, ok) ==
    IF pubs[id] = NoObj THEN "PublisherNotFound"
    ELSE IF ok THEN "Ok"
    ELSE "AddIceCandidate"

\* handle_grabber_ice: without the ice field Err(InvalidMessageFormat); else
\* the result of add_publisher_ice.
GrabberIce(g, msg, ok, maxIces) ==
    /\ gpc[g] = "loop"
    /\ gices[g] < maxIces
    /\ gices' = [gices EXCEPT ![g] = @ + 1]
    /\ gin' = [gin EXCEPT ![g] = msg]
    /\ gret' = [gret EXCEPT ![g] =
                   IF ~msg.data
                   THEN Ret("handle_grabber_ice", "InvalidMessageFormat")
                   ELSE Ret("add_publisher_ice",
                            add_publisher_ice(publishers, g, ok))]
    /\ UNCHANGED <<peers, gpc, gname, gout, goffers, glog, gres, gws, pvars,
                   sfuvars>>
    /\ UNCHANGED bvars

\* The on_track callback of a publisher peer connection: a TrackBroadcaster
\* (with its producer task) is created for the remote track and registered in
\* the session.
OnTrack(o, t) ==
    /\ o \in DOMAIN psess
    /\ psess[o].pc = "open"
    /\ gpc[o[1]] \notin {"cleanup", "closed"}
    /\ t \notin psess[o].broadcasters
    /\ psess' = [psess EXCEPT ![o].broadcasters = @ \cup {t}]
    /\ sent' = sent @@ (<<o, t>> :> 0)
    /\ bcast' = bcast @@ (<<o, t>> :> NewBroadcaster)
    /\ UNCHANGED <<peers, gvars, pvars, publishers, metrics, ssess, subscribers,
                   tasks, upd, now>>

\* The receive loop ends (Close frame, read error or end of stream): the peer
\* is removed from the registry.
GrabberLeave(g) ==
    /\ gpc[g] = "loop"
    /\ peers' = remove_peer_by_socket_id(peers, g)
    /\ gpc' = [gpc EXCEPT ![g] = "cleanup"]
    /\ UNCHANGED <<gname, gout, goffers, gin, glog, gices, gret, gres, gws, pvars,
                   sfuvars>>
    /\ UNCHANGED bvars

\* A remove_publisher that lowers the counter whether or not the map has an
\* entry under the id.
remove_publisher_always_counts(pubs, ps, m, id) ==
    LET old == pubs[id] IN
    [publishers |-> [pubs EXCEPT ![id] = NoObj],
     psess |-> IF old # NoObj
               THEN [ps EXCEPT ![old] = [ReleasePub(@, "map") EXCEPT !.removed = TRUE]]
               ELSE ps,
     metrics |-> update_metrics(m, "publishers", -1)]

\* A remove_publisher that lowers the counter and leaves the map as it is.
remove_publisher_keeps_entry(pubs, ps, m, id) ==
    [publishers |-> pubs, psess |-> ps,
     metrics |-> update_metrics(m, "publishers", -1)]

\* LocalSfu::remove_publisher on the maps: an entry under the id is removed
\* (its Arc released) and the counter lowered; without one nothing changes.
remove_publisher(pubs, ps, m, id) ==
    LET old == pubs[id] IN
    IF old # NoObj
    THEN [publishers |-> [pubs EXCEPT ![id] = NoObj],
          psess |-> [ps EXCEPT ![old] = [ReleasePub(@, "map") EXCEPT !.removed = TRUE]],
          metrics |-> update_metrics(m, "publishers", -1)]
    ELSE [publishers |-> pubs, psess |-> ps, metrics |-> m]

\* remove_publisher, called by the handler after the registry removal; the
\* handler then returns Ok. The remove takes the write lock of the entry.
RemovePublisher(g) ==
    LET r == remove_publisher(publishers, psess, metrics, g) IN
    /\ gpc[g] \in {"cleanup", "rp_blocked"}
    /\ ~RefHeld(g)
    /\ publishers' = r.publishers
    /\ psess' = r.psess
    /\ metrics' = r.metrics
    /\ tasks' = AbortTasksOf(tasks, psess')
    /\ gret' = [gret EXCEPT ![g] = Ret("remove_publisher", "Ok")]
    /\ gres' = [gres EXCEPT ![g] = "Ok"]
    /\ gpc' = [gpc EXCEPT ![g] = "closed"]
    /\ UNCHANGED <<peers, gname, gout, goffers, gin, glog, gices, gws, pvars,
                   ssess, subscribers, sent>>
    /\ UNCHANGED bvars

\* The handler calls remove_publisher while a Ref into the entry of its key
\* is held across an await: DashMap::remove waits for the lock of the entry,
\* and the worker thread of the handler waits with it.
RemovePublisherBlock(g) ==
    /\ gpc[g] = "cleanup"
    /\ RefHeld(g)
    /\ WorkerFree
    /\ gpc' = [gpc EXCEPT ![g] = "rp_blocked"]
    /\ UNCHANGED <<peers, gname, gout, goffers, gin, glog, gices, gret, gres, gws,
                   pvars, sfuvars, bvars>>

\* A further remove_publisher call on the Sfu interface for a grabber whose
\* handler has returned.
RemovePublisherAgain(g) ==
    LET r == remove_publisher(publishers, psess, metrics, g) IN
    /\ gpc[g] = "closed"
    /\ gret[g].op = "remove_publisher"
    /\ ~RefHeld(g)
    /\ publishers' = r.publishers
    /\ psess' = r.psess
    /\ metrics' = r.metrics
    /\ tasks' = AbortTasksOf(tasks, psess')
    /\ gret' = [gret EXCEPT ![g] = Ret("remove_publisher_again", "Ok")]
    /\ UNCHANGED <<peers, gpc, gname, gout, goffers, gin, glog, gices, gres, gws,
                   pvars, ssess, subscribers, sent>>
    /\ UNCHANGED bvars

\* The writer task of a grabber WsSession takes a turn.
GrabberWriter(g, ok) ==
    /\ CanSend(gws[g])
    /\ gws[g].chan # <<>>
    /\ gws' = [gws EXCEPT ![g] = ws_write(@, ok)]
    /\ UNCHANGED <<peers, gpc, gname, gout, goffers, gin, glog, gices, gret, gres,
                   pvars, sfuvars>>
    /\ UNCHANGED bvars

\* A Ping frame arrives in the receive loop and PONG is enqueued, the result
\* of the send ignored.
GrabberPing(g, maxPongs) ==
    /\ gpc[g] = "loop"
    /\ Occurrences(gout[g], "PONG") < maxPongs
    /\ gout' = [gout EXCEPT ![g] = log_send(@, gws[g], "PONG")]
    /\ gws' = [gws EXCEPT ![g] = ws_send(@, "PONG")]
    /\ UNCHANGED <<peers, gpc, gname, goffers, gin, glog, gices, gret, gres,
                   pvars, sfuvars>>
    /\ UNCHANGED bvars

\* The task spawned by handle_publisher_offer receives a candidate that the
\* peer connection of the n-th OFFER gathered and enqueues SERVER_ICE, the
\* result of the send ignored.
GrabberServerIce(g, n, maxServerIce) ==
    /\ PubObj(g, n) \in DOMAIN psess
    /\ psess[PubObj(g, n)].pc = "open"
    /\ Occurrences(gout[g], "SERVER_ICE") < maxServerIce
    /\ gout' = [gout EXCEPT ![g] = log_send(@, gws[g], "SERVER_ICE")]
    /\ gws' = [gws EXCEPT ![g] = ws_send(@, "SERVER_ICE")]
    /\ UNCHANGED <<peers, gpc, gname, goffers, gin, glog, gices, gret, gres,
                   pvars, sfuvars>>
    /\ UNCHANGED bvars

\* handle_ping: a PING text with its ping field updates the registry entry
\* of the session; without the field nothing is done. Either way Ok.
GrabberTextPing(g, msg) ==
    /\ gpc[g] = "loop"
    /\ gin' = [gin EXCEPT ![g] = msg]
    /\ peers' = IF msg.ping THEN update_ping(peers, g, msg.connections) ELSE peers
    /\ gret' = [gret EXCEPT ![g] = Ret("handle_ping", "Ok")]
    /\ UNCHANGED <<gpc, gname, gout, goffers, glog, gices, gres, gws, pvars,
                   sfuvars, bvars>>

\* A text frame that handle_grabber_message does not act on: serde_json fails
\* (InvalidMessageFormat) or the event falls to the default arm (Ok).
GrabberOther(g, msg) ==
    LET kind == IF msg.decodes THEN "Ok" ELSE "InvalidMessageFormat" IN
    /\ gpc[g] = "loop"
    /\ gin' = [gin EXCEPT ![g] = msg]
    /\ gret' = [gret EXCEPT ![g] = Ret("handle_grabber_message", kind)]
    /\ gpc' = [gpc EXCEPT ![g] = after_message(kind)]
    /\ UNCHANGED <<peers, gname, gout, goffers, glog, gices, gres, gws, pvars,
                   sfuvars, bvars>>

\* An update_publisher that takes the session out of the publishers map.
update_publisher_tears_down(pubs, id) ==
    [ret |-> IF pubs[id] = NoObj THEN "PublisherNotFound" ELSE "",
     publishers |-> [pubs EXCEPT ![id] = NoObj]]

\* LocalSfu::update_publisher up to its first await: the lookup in the
\* publishers map, which fails with PublisherNotFound or yields the Ref.
update_publisher(pubs, id) ==
    [ret |-> IF pubs[id] = NoObj THEN "PublisherNotFound" ELSE "",
     publishers |-> pubs]

\* A caller of the Sfu trait calls update_publisher(id, offer).
UpdatePublisher(id) ==
    LET r == update_publisher(publishers, id) IN
    /\ upd.pc = "idle"
    /\ publishers' = r.publishers
    /\ upd' = IF r.ret = ""
              THEN Update("update_publisher", "sdp", id, publishers[id], "")
              ELSE Update("update_publisher", "idle", id, NoObj, r.ret)
    /\ UNCHANGED <<peers, gvars, pvars, psess, metrics, ssess, subscribers,
                   tasks, sent, bcast, now>>

\* update_publisher: set_remote_description, create_answer and
\* set_local_description return, the first error ending the call; the Ref is
\* released.
UpdatePublisherReturn(kind) ==
    /\ upd.pc = "sdp"
    /\ WorkerFree
    /\ upd' = [upd EXCEPT !.pc = "idle", !.ret = kind]
    /\ UNCHANGED <<peers, gvars, pvars, sfuvars, bcast, now>>

\* An update_subscriber that looks the subscriber up and fails without one.
update_subscriber_needs_session(subs, id) ==
    IF subs[id] = NoObj THEN "SubscriberNotFound" ELSE "Ok"

\* LocalSfu::update_subscriber: the request is ignored and success returned.
update_subscriber(subs, id) == "Ok"

\* A caller of the Sfu trait calls update_subscriber(id, offer).
UpdateSubscriber(id) ==
    /\ upd.pc = "idle"
    /\ upd' = Update("update_subscriber", "idle", id, NoObj,
                     update_subscriber(subscribers, id))
    /\ UNCHANGED <<peers, gvars, pvars, sfuvars, bcast, now>>

\* ------------------------------------------------------- the player handler
\* SfuConfig::validate_credentials: a placeholder that accepts every credential.
validate_credentials(creds) == TRUE

\* An authentication that looks at the credential alone, whatever the event
\* of the message that carries it.
authenticate_any_event(msg) ==
    IF msg.frame # "text" THEN "false"
    ELSE IF ~msg.decodes THEN "err"
    ELSE IF msg.cred # "" /\ validate_credentials(msg.cred)
    THEN "true"
    ELSE "false"

\* authenticate_player: "err" is the Err of a text frame that does not decode.
authenticate_player(msg) ==
    IF msg.frame # "text" THEN "false"
    ELSE IF ~msg.decodes THEN "err"
    ELSE IF msg.event = "AUTH" /\ msg.cred # "" /\ validate_credentials(msg.cred)
    THEN "true"
    ELSE "false"

\* handle_player_connection: the socket is wrapped and AUTH_REQUEST is sent.
PlayerConnect(p) ==
    /\ ppc[p] = "idle"
    /\ pout' = [pout EXCEPT ![p] = log_send(@, pws[p], "AUTH_REQUEST")]
    /\ pws' = [pws EXCEPT ![p] = ws_send(@, "AUTH_REQUEST")]
    /\ IF CanSend(pws[p])
       THEN /\ ppc' = [ppc EXCEPT ![p] = "auth"]
            /\ UNCHANGED pres
       ELSE /\ ppc' = [ppc EXCEPT ![p] = "rejected"]
            /\ pres' = [pres EXCEPT ![p] = "WebSocket"]
    /\ UNCHANGED <<peers, gvars, pfirst, poffers, pin, pcall, pices, pret,
                   sfuvars>>
    /\ UNCHANGED bvars

\* handle_player_connection: the first inbound message, awaited for 10 s.
\* Without one the handler returns Timeout, SessionError (end of stream) or
\* WebSocket (read error); a text frame that does not decode returns
\* InvalidMessageFormat; a message that does not authenticate is answered
\* AUTH_FAILED and returns AuthenticationFailed; else INIT_PEER is sent.
PlayerAuth(p, msg) ==
    /\ ppc[p] = "auth"
    /\ pfirst' = [pfirst EXCEPT ![p] = msg]
    /\ IF msg.frame \in {"timeout", "end", "error"}
       THEN /\ ppc' = [ppc EXCEPT ![p] = "rejected"]
            /\ pres' = [pres EXCEPT ![p] =
                           IF msg.frame = "timeout" THEN "Timeout"
                           ELSE IF msg.frame = "end" THEN "SessionError"
                           ELSE "WebSocket"]
            /\ UNCHANGED <<pout, pws>>
       ELSE IF authenticate_player(msg) = "err"
       THEN /\ ppc' = [ppc EXCEPT ![p] = "rejected"]
            /\ pres' = [pres EXCEPT ![p] = "InvalidMessageFormat"]
            /\ UNCHANGED <<pout, pws>>
       ELSE IF authenticate_player(msg) = "false"
       THEN /\ pout' = [pout EXCEPT ![p] = log_send(@, pws[p], "AUTH_FAILED")]
            /\ pws' = [pws EXCEPT ![p] = ws_send(@, "AUTH_FAILED")]
            /\ ppc' = [ppc EXCEPT ![p] = "rejected"]
            /\ pres' = [pres EXCEPT ![p] =
                           IF CanSend(pws[p]) THEN "AuthenticationFailed"
                           ELSE "WebSocket"]
       ELSE /\ pout' = [pout EXCEPT ![p] = log_send(@, pws[p], "INIT_PEER")]
            /\ pws' = [pws EXCEPT ![p] = ws_send(@, "INIT_PEER")]
            /\ IF CanSend(pws[p])
               THEN /\ ppc' = [ppc EXCEPT ![p] = "loop"]
                    /\ UNCHANGED pres
               ELSE /\ ppc' = [ppc EXCEPT ![p] = "rejected"]
                    /\ pres' = [pres EXCEPT ![p] = "WebSocket"]
    /\ UNCHANGED <<peers, gvars, poffers, pin, pcall, pices, pret, sfuvars>>
    /\ UNCHANGED bvars

\* The locals of add_subscriber: the publisher id and the session its Ref points
\* to, the snapshot of that session's broadcasters, the part of it the loop has
\* still to attach, and track_mapping.
NoCall == [publisher_id |-> "", obj |-> NoObj, snapshot |-> {}, pending |-> {},
           track_mapping |-> <<>>]

\* LocalSfu::check_subscriber_limit: the sessions whose publisher_id is the
\* publisher's are counted.
subscriber_count(subs, ss, publisher_id) ==
    Cardinality({p \in Players :
                    subs[p] # NoObj /\ ss[subs[p]].publisher_id = publisher_id})

check_subscriber_limit(subs, ss, publisher_id) ==
    subscriber_count(subs, ss, publisher_id) < max_subscribers_per_publisher

\* handle_subscribe_offer up to the first await of add_subscriber: the offer
\* data, the peer name, the registry lookup and the SDP, then
\* check_subscriber_limit and the lookup of the publisher session.
PlayerOffer(p, msg, maxOffers) ==
    LET peer == get_peer_by_name(peers, msg.peer_name) IN
    /\ ppc[p] = "loop"
    /\ poffers[p] < maxOffers
    /\ poffers' = [poffers EXCEPT ![p] = @ + 1]
    /\ pin' = [pin EXCEPT ![p] = msg]
    /\ IF ~msg.data \/ msg.peer_name = "" \/ peer = NoPeer \/ ~msg.sdp_ok
       THEN \* Err(InvalidMessageFormat | PeerNotFound), logged by the receive loop
            /\ pret' = [pret EXCEPT ![p] =
                           Ret("handle_subscribe_offer",
                               IF msg.data /\ msg.peer_name # "" /\ peer = NoPeer
                               THEN "PeerNotFound"
                               ELSE "InvalidMessageFormat")]
            /\ UNCHANGED <<ppc, pout, pws, pcall>>
       ELSE IF check_subscriber_limit(subscribers, ssess, peer.socket_id)
               /\ publishers[peer.socket_id] # NoObj
       THEN /\ ppc' = [ppc EXCEPT ![p] = "as_newpc"]
            /\ pcall' = [pcall EXCEPT ![p] =
                            [NoCall EXCEPT !.publisher_id = peer.socket_id,
                                           !.obj = publishers[peer.socket_id]]]
            /\ UNCHANGED <<pout, pws, pret>>
       ELSE \* Err(Internal) of check_subscriber_limit, else Err(PublisherNotFound)
            /\ pret' = [pret EXCEPT ![p] =
                           IF ~check_subscriber_limit(subscribers, ssess, peer.socket_id)
                           THEN [Ret("add_subscriber", "Internal") EXCEPT
                                    !.limit = <<"subscriber", peer.socket_id,
                                                max_subscribers_per_publisher>>]
                           ELSE Ret("add_subscriber", "PublisherNotFound")]
            /\ pout' = [pout EXCEPT ![p] = log_send(@, pws[p], "OFFER_FAILED")]
            /\ pws' = [pws EXCEPT ![p] = ws_send(@, "OFFER_FAILED")]
            /\ UNCHANGED <<ppc, pcall>>
    /\ UNCHANGED <<peers, gvars, pfirst, pices, pres, sfuvars>>
    /\ UNCHANGED bvars

\* An add_subscriber_ice that drops the candidate of an unknown subscriber
\* and returns Ok.
add_subscriber_ice_drops_silently(subs, id, ok) ==
    IF subs[id] = NoObj THEN "Ok"
    ELSE IF ok THEN "Ok"
    ELSE "AddIceCandidate"

\* LocalSfu::add_subscriber_ice: the session is looked up (SubscriberNotFound
\* without one) and the candidate handed to its peer connection, which takes
\* it or not.
add_subscriber_ice(subs, id, ok) ==
    IF subs[id] = NoObj THEN "SubscriberNotFound"
    ELSE IF ok THEN "Ok"
    ELSE "AddIceCandidate"

\* handle_player_ice: without the ice field Err(InvalidMessageFormat); else
\* the result of add_subscriber_ice. No map and no session changes.
PlayerIce(p, msg, ok, maxIces) ==
    /\ ppc[p] = "loop"
    /\ pices[p] < maxIces
    /\ pices' = [pices EXCEPT ![p] = @ + 1]
    /\ pin' = [pin EXCEPT ![p] = msg]
    /\ pret' = [pret EXCEPT ![p] =
                   IF ~msg.data
                   THEN Ret("handle_player_ice", "InvalidMessageFormat")
                   ELSE Ret("add_subscriber_ice",
                            add_subscriber_ice(subscribers, p, ok))]
    /\ UNCHANGED <<peers, gvars, ppc, pfirst, pout, poffers, pcall, pres, pws,
                   sfuvars>>
    /\ UNCHANGED bvars

\* add_subscriber: new_peer_connection returns and the publisher's broadcasters
\* are snapshotted (get_all_broadcasters).
AddSubscriberNewPc(p, ok) ==
    /\ ppc[p] = "as_newpc"
    /\ WorkerFree
    /\ IF ok
       THEN LET snap == psess[pcall[p].obj].broadcasters IN
            /\ pcall' = [pcall EXCEPT ![p].snapshot = snap, ![p].pending = snap]
            /\ ppc' = [ppc EXCEPT ![p] = IF snap = {} THEN "as_sdp" ELSE "as_attach"]
            /\ UNCHANGED <<pout, pws, pret>>
       ELSE /\ pret' = [pret EXCEPT ![p] = Ret("add_subscriber",
                                               "PeerConnectionCreation")]
            /\ pout' = [pout EXCEPT ![p] = log_send(@, pws[p], "OFFER_FAILED")]
            /\ pws' = [pws EXCEPT ![p] = ws_send(@, "OFFER_FAILED")]
            /\ ppc' = [ppc EXCEPT ![p] = "loop"]
            /\ pcall' = [pcall EXCEPT ![p] = NoCall]
    /\ UNCHANGED <<peers, gvars, pfirst, poffers, pin, pices, pres, sfuvars>>
    /\ UNCHANGED bvars

\* The local track id format!("{}-{}", original_track_id, subscriber_id).
local_track_id(t, p) == <<t, p>>

\* The consumer task the n-th OFFER of player p attaches to source track t.
TaskId(p, n, t) == <<p, n, t>>

\* TrackBroadcaster::add_subscriber: a consumer task is spawned and its
\* JoinHandle inserted under the local track id; a handle already there is
\* replaced (and so detached: dropping a JoinHandle does not abort its task).
\* The receiver starts at the tail of the channel (`start` packets were sent
\* before); `got` is what the task has
\* taken from it, a packet number or -N for a Lagged(N); `burst` and `due`
\* are the requests the task of request_keyframe_with_retries has sent and
\* the end of its sleep (a track that is not video spawns none), `requested`
\* the times at which it sent them.
broadcaster_add_subscriber(T, k, o, t, p, tail) ==
    [x \in DOMAIN T |->
        IF T[x].obj = o /\ T[x].key = local_track_id(t, p)
        THEN [T[x] EXCEPT !.registered = FALSE]
        ELSE T[x]]
    @@ (k :> [obj |-> o, track |-> t, sub |-> p, key |-> local_track_id(t, p),
              state |-> "running", registered |-> TRUE, queued |-> 0, written |-> 0,
              start |-> tail, got |-> <<>>, burst |-> IF t = "video" THEN 0 ELSE 3, due |-> 0,
              requested |-> <<>>])

\* TrackBroadcaster::remove_subscriber: the handle under the local track id is
\* removed and its task aborted.
broadcaster_remove_subscriber(T, o, key) ==
    [x \in DOMAIN T |->
        IF T[x].obj = o /\ T[x].key = key /\ T[x].registered
        THEN [T[x] EXCEPT !.registered = FALSE,
                          !.state = IF @ = "running" THEN "aborted" ELSE @]
        ELSE T[x]]

\* A loop that looks at the broadcasters map of the session at each turn: the
\* tracks registered by now that the call has not attached yet.
remaining_live(call, live) ==
    live \ {call.track_mapping[i][1] : i \in 1..Len(call.track_mapping)}

\* The tracks the loop of add_subscriber has still to attach: it iterates the
\* Vec that get_all_broadcasters returned, whatever the map holds by now.
remaining(call, live) == call.pending

\* add_subscriber: one turn of its loop over the snapshot: add_track returns,
\* and on success the local track is attached to its broadcaster.
AddSubscriberAttach(p, t, ok) ==
    /\ ppc[p] = "as_attach"
    /\ WorkerFree
    /\ t \in remaining(pcall[p], psess[pcall[p].obj].broadcasters)
    /\ IF ok
       THEN /\ tasks' = broadcaster_add_subscriber(
                            tasks, TaskId(p, poffers[p], t), pcall[p].obj, t, p,
                            sent[<<pcall[p].obj, t>>])
            /\ pcall' = [pcall EXCEPT
                            ![p].pending = @ \ {t},
                            ![p].track_mapping = Append(@, <<t, local_track_id(t, p)>>)]
            /\ ppc' = [ppc EXCEPT ![p] =
                          IF pcall[p].pending = {t} THEN "as_sdp" ELSE "as_attach"]
            /\ UNCHANGED <<pout, pws, pret>>
       ELSE /\ pret' = [pret EXCEPT ![p] = Ret("add_subscriber", "AddTrack")]
            /\ pout' = [pout EXCEPT ![p] = log_send(@, pws[p], "OFFER_FAILED")]
            /\ pws' = [pws EXCEPT ![p] = ws_send(@, "OFFER_FAILED")]
            /\ ppc' = [ppc EXCEPT ![p] = "loop"]
            /\ pcall' = [pcall EXCEPT ![p] = NoCall]
            /\ UNCHANGED tasks
    /\ UNCHANGED <<peers, gvars, pfirst, poffers, pin, pices, pres, psess,
                   publishers, metrics, ssess, subscribers, sent>>
    /\ UNCHANGED bvars

\* The session object the n-th OFFER of player p creates.
SubObj(p, n) == <<p, n>>

\* An Arc<SubscriberSession> is dropped (its only holder is the subscribers
\* map): impl Drop for SubscriberSession spawns the close of its connection.
DropSub(ss, s) ==
    IF s = NoObj THEN ss ELSE [ss EXCEPT ![s].pc = "closing"]

\* add_subscriber: the SDP exchange returns; on success the session is
\* inserted under the subscriber id (replacing the entry there), the counter
\* is raised and ANSWER is sent.
AddSubscriberFinish(p, ok) ==
    LET s == SubObj(p, poffers[p]) IN
    /\ ppc[p] = "as_sdp"
    /\ WorkerFree
    /\ IF ok
       THEN /\ ssess' = DropSub(ssess, subscribers[p])
                        @@ (s :> [publisher_id |-> pcall[p].publisher_id,
                                  track_mapping |-> pcall[p].track_mapping,
                                  pc |-> "open"])
            /\ subscribers' = [subscribers EXCEPT ![p] = s]
            /\ metrics' = update_metrics(metrics, "subscribers", 1)
            /\ pret' = [pret EXCEPT ![p] = Ret("add_subscriber", "Ok")]
            /\ pout' = [pout EXCEPT ![p] = log_send(@, pws[p], "ANSWER")]
            /\ pws' = [pws EXCEPT ![p] = ws_send(@, "ANSWER")]
       ELSE /\ pret' = [pret EXCEPT ![p] = Ret("add_subscriber",
                                               "SetRemoteDescription")]
            /\ pout' = [pout EXCEPT ![p] = log_send(@, pws[p], "OFFER_FAILED")]
            /\ pws' = [pws EXCEPT ![p] = ws_send(@, "OFFER_FAILED")]
            /\ UNCHANGED <<ssess, subscribers, metrics>>
    /\ ppc' = [ppc EXCEPT ![p] = "loop"]
    /\ pcall' = [pcall EXCEPT ![p] = NoCall]
    /\ UNCHANGED <<peers, gvars, pfirst, poffers, pin, pices, pres, psess,
                   publishers, tasks, sent>>
    /\ UNCHANGED bvars

RECURSIVE RemoveAll(_, _, _, _)
\* The loop of remove_subscriber over track_mapping: get_broadcaster on the
\* source track id, and on a hit remove_subscriber on the local track id.
RemoveAll(T, o, bs, mapping) ==
    IF mapping = <<>> THEN T
    ELSE LET m == Head(mapping)
         IN RemoveAll(IF m[1] \in bs
                      THEN broadcaster_remove_subscriber(T, o, m[2])
                      ELSE T,
                      o, bs, Tail(mapping))

\* LocalSfu::remove_subscriber on the consumer tasks: with the publisher still
\* in the publishers map, each mapped track whose broadcaster that session
\* holds is asked to remove the local track.
remove_subscriber_tasks(T, pubs, ps, sess) ==
    LET cur == pubs[sess.publisher_id] IN
    IF cur = NoObj THEN T
    ELSE RemoveAll(T, cur, ps[cur].broadcasters, sess.track_mapping)

\* A remove_subscriber that lowers the counter whether or not the map has a
\* session under the id.
remove_subscriber_always_counts(subs, ss, T, m, pubs, ps, id) ==
    LET s == subs[id] IN
    [subscribers |-> [subs EXCEPT ![id] = NoObj],
     ssess |-> DropSub(ss, s),
     tasks |-> IF s # NoObj THEN remove_subscriber_tasks(T, pubs, ps, ss[s]) ELSE T,
     metrics |-> update_metrics(m, "subscribers", -1)]

\* A remove_subscriber that gives up, leaving the session in the map, when the
\* publisher of the session is no longer in the publishers map.
remove_subscriber_needs_publisher(subs, ss, T, m, pubs, ps, id) ==
    LET s == subs[id] IN
    IF s # NoObj /\ pubs[ss[s].publisher_id] # NoObj
    THEN [subscribers |-> [subs EXCEPT ![id] = NoObj],
          ssess |-> DropSub(ss, s),
          tasks |-> remove_subscriber_tasks(T, pubs, ps, ss[s]),
          metrics |-> update_metrics(m, "subscribers", -1)]
    ELSE [subscribers |-> subs, ssess |-> ss, tasks |-> T, metrics |-> m]

\* LocalSfu::remove_subscriber: a session under the id is removed from the
\* map, its consumers are removed from the broadcasters that can be reached,
\* the session is dropped and the counter lowered; without a session nothing
\* changes.
remove_subscriber(subs, ss, T, m, pubs, ps, id) ==
    LET s == subs[id] IN
    IF s # NoObj
    THEN [subscribers |-> [subs EXCEPT ![id] = NoObj],
          ssess |-> DropSub(ss, s),
          tasks |-> remove_subscriber_tasks(T, pubs, ps, ss[s]),
          metrics |-> update_metrics(m, "subscribers", -1)]
    ELSE [subscribers |-> subs, ssess |-> ss, tasks |-> T, metrics |-> m]

\* The receive loop ends (Close frame, read error or end of stream), the
\* handler calls remove_subscriber, which returns Ok with or without a session
\* under the id, and returns Ok itself.
PlayerLeave(p) ==
    LET r == remove_subscriber(subscribers, ssess, tasks, metrics, publishers,
                               psess, p)
    IN
    /\ ppc[p] = "loop"
    /\ subscribers' = r.subscribers
    /\ ssess' = r.ssess
    /\ tasks' = r.tasks
    /\ metrics' = r.metrics
    /\ pret' = [pret EXCEPT ![p] = Ret("remove_subscriber", "Ok")]
    /\ pres' = [pres EXCEPT ![p] = "Ok"]
    /\ ppc' = [ppc EXCEPT ![p] = "closed"]
    /\ UNCHANGED <<peers, gvars, pfirst, pout, poffers, pin, pcall, pices, pws,
                   psess, publishers, sent>>
    /\ UNCHANGED bvars

\* The writer task of a player WsSession takes a turn.
PlayerWriter(p, ok) ==
    /\ CanSend(pws[p])
    /\ pws[p].chan # <<>>
    /\ pws' = [pws EXCEPT ![p] = ws_write(@, ok)]
    /\ UNCHANGED <<peers, gvars, ppc, pfirst, pout, poffers, pin, pcall, pices,
                   pret, pres, sfuvars>>
    /\ UNCHANGED bvars

\* A text frame that handle_player_message does not act on.
PlayerOther(p, msg) ==
    LET kind == IF msg.decodes THEN "Ok" ELSE "InvalidMessageFormat" IN
    /\ ppc[p] = "loop"
    /\ pin' = [pin EXCEPT ![p] = msg]
    /\ pret' = [pret EXCEPT ![p] = Ret("handle_player_message", kind)]
    /\ ppc' = [ppc EXCEPT ![p] = after_message(kind)]
    /\ UNCHANGED <<peers, gvars, pfirst, pout, poffers, pcall, pices, pres, pws,
                   sfuvars, bvars>>

\* A Ping frame arrives in the receive loop of a player and PONG is enqueued.
PlayerPing(p, maxPongs) ==
    /\ ppc[p] = "loop"
    /\ Occurrences(pout[p], "PONG") < maxPongs
    /\ pout' = [pout EXCEPT ![p] = log_send(@, pws[p], "PONG")]
    /\ pws' = [pws EXCEPT ![p] = ws_send(@, "PONG")]
    /\ UNCHANGED <<peers, gvars, ppc, pfirst, poffers, pin, pcall, pices, pret,
                   pres, sfuvars>>
    /\ UNCHANGED bvars

\* The task spawned by handle_subscribe_offer enqueues SERVER_ICE for a
\* candidate of the peer connection of the n-th OFFER.
PlayerServerIce(p, n, maxServerIce) ==
    /\ SubObj(p, n) \in DOMAIN ssess
    /\ ssess[SubObj(p, n)].pc = "open"
    /\ Occurrences(pout[p], "SERVER_ICE") < maxServerIce
    /\ pout' = [pout EXCEPT ![p] = log_send(@, pws[p], "SERVER_ICE")]
    /\ pws' = [pws EXCEPT ![p] = ws_send(@, "SERVER_ICE")]
    /\ UNCHANGED <<peers, gvars, ppc, pfirst, poffers, pin, pcall, pices, pret,
                   pres, sfuvars>>
    /\ UNCHANGED bvars

\* ------------------------------------------------------ the broadcaster tasks
\* A broadcast send that waits for room: a full receiver holds the packet
\* back from this and every other receiver.
broadcast_send_bounded(T, o, t) ==
    IF \E x \in DOMAIN T : /\ T[x].obj = o /\ T[x].track = t
                            /\ T[x].state = "running"
                            /\ T[x].queued >= next_power_of_two(broadcast_channel_capacity)
    THEN T
    ELSE [k \in DOMAIN T |->
             IF T[k].obj = o /\ T[k].track = t /\ T[k].state = "running"
             THEN [T[k] EXCEPT !.queued = @ + 1]
             ELSE T[k]]

\* broadcast::Sender::send: the packet is stored, the oldest one overwritten,
\* and every live receiver of the channel has one more packet behind the tail.
broadcast_send(T, o, t) ==
    [k \in DOMAIN T |->
        IF T[k].obj = o /\ T[k].track = t /\ T[k].state = "running"
        THEN [T[k] EXCEPT !.queued = @ + 1]
        ELSE T[k]]

\* The producer task: read_rtp returns a packet, which is sent on the
\* broadcast channel: every receiver subscribed by then gets it.
ProducerSend(o, t, maxPackets) ==
    /\ o \in DOMAIN psess
    /\ t \in psess[o].broadcasters
    /\ ~psess[o].dropped
    /\ bcast[<<o, t>>].read_task = "running"
    /\ sent[<<o, t>>] < maxPackets
    /\ sent' = [sent EXCEPT ![<<o, t>>] = @ + 1]
    /\ tasks' = broadcast_send(tasks, o, t)
    /\ UNCHANGED <<peers, gvars, pvars, psess, publishers, metrics, ssess,
                   subscribers>>
    /\ UNCHANGED bvars

\* The producer task: read_rtp returns an error (the source track is closed,
\* or another error) and the task ends, dropping its clone of the sender.
ProducerEnd(o, t) ==
    /\ o \in DOMAIN psess
    /\ t \in psess[o].broadcasters
    /\ ~psess[o].dropped
    /\ bcast[<<o, t>>].read_task = "running"
    /\ bcast' = [bcast EXCEPT ![<<o, t>>].read_task = "ended"]
    /\ UNCHANGED <<peers, gvars, pvars, sfuvars, upd, now>>

\* A receiver that takes the newest packet of the channel.
NextPacket_newest(k) == sent[<<tasks[k].obj, tasks[k].track>>]

\* The number of the packet a receiver with q packets behind the tail takes.
NextPacket(k) == sent[<<tasks[k].obj, tasks[k].track>>] - tasks[k].queued + 1

\* A write error that ends every consumer task of the broadcaster.
consumer_write_failed_ends_all(T, k) ==
    [x \in DOMAIN T |->
        IF T[x].obj = T[k].obj /\ T[x].track = T[k].track /\ T[x].state = "running"
        THEN [T[x] EXCEPT !.queued = 0, !.state = "ended"]
        ELSE T[x]]

\* The consumer task after write_rtp returned an error (ClosedPipe,
\* ConnectionClosed or another): it breaks out of its loop, which drops its
\* receiver.
consumer_write_failed(T, k) ==
    [T EXCEPT ![k].queued = 0, ![k].state = "ended"]

\* A consumer task: recv returns a packet and write_rtp on the local track
\* returns. The write can fail only once the connection of the local track
\* has been negotiated, that is after the add_subscriber call that made it.
ConsumerWrite(k, ok) ==
    /\ k \in DOMAIN tasks
    /\ tasks[k].state = "running"
    /\ tasks[k].queued > 0
    /\ tasks[k].queued <= next_power_of_two(broadcast_channel_capacity)
    /\ IF ok
       THEN tasks' = [tasks EXCEPT ![k].queued = @ - 1, ![k].written = @ + 1,
                                   ![k].got = Append(@, NextPacket(k))]
       ELSE /\ ~(ppc[k[1]] \in {"as_attach", "as_sdp"} /\ poffers[k[1]] = k[2])
            /\ tasks' = consumer_write_failed(tasks, k)
    /\ UNCHANGED <<peers, gvars, pvars, psess, publishers, metrics, ssess,
                   subscribers, sent>>
    /\ UNCHANGED bvars

\* A Lagged arm that asks for a keyframe whatever the number skipped.
lag_always_requests(skipped) == TRUE

\* The keyframe request of the Lagged arm: sent when more than 10 packets
\* were skipped.
lag_requests_keyframe(skipped) == skipped > 10

\* A consumer task: recv returns Lagged(skipped), the receiver having fallen
\* behind the oldest retained packet; it moves to that packet, the task asks
\* for a keyframe when skipped > 10 and goes on.
ConsumerLagged(k) ==
    LET cap == next_power_of_two(broadcast_channel_capacity)
        skipped == tasks[k].queued - cap
        b == <<tasks[k].obj, tasks[k].track>>
    IN
    /\ k \in DOMAIN tasks
    /\ tasks[k].state = "running"
    /\ tasks[k].queued > cap
    /\ tasks' = [tasks EXCEPT ![k].queued = cap, ![k].got = Append(@, -skipped)]
    /\ bcast' = IF lag_requests_keyframe(skipped)
                THEN [bcast EXCEPT ![b].inbox = @ + 1]
                ELSE bcast
    /\ UNCHANGED <<peers, gvars, pvars, psess, publishers, metrics, ssess,
                   subscribers, sent, upd, now>>

RECURSIVE Walk(_, _)
\* The number of the last packet accounted for by what a receiver took, after
\* `pos` packets: each packet taken must be the next one, and a Lagged(N)
\* accounts for N; -1 when a packet taken is not the next one.
Walk(seq, pos) ==
    IF seq = <<>> THEN pos
    ELSE LET e == Head(seq) IN
         IF e > 0
         THEN IF e = pos + 1 THEN Walk(Tail(seq), e) ELSE -1
         ELSE Walk(Tail(seq), pos - e)

\* The RTCP reader of a subscriber's sender reads a PLI or a FIR for a video
\* track and calls request_keyframe on the broadcaster.
RequestKeyframe(o, t, maxInbox) ==
    /\ <<o, t>> \in DOMAIN bcast
    /\ t = "video"
    /\ \E k \in DOMAIN tasks : tasks[k].obj = o /\ tasks[k].track = t
    /\ bcast[<<o, t>>].inbox < maxInbox
    /\ bcast' = [bcast EXCEPT ![<<o, t>>].inbox = @ + 1]
    /\ UNCHANGED <<peers, gvars, pvars, sfuvars, upd, now>>

\* A task of request_keyframe_with_retries that does not sleep.
retry_no_sleep(i) == 0

\* request_keyframe_with_retries: the sleep after the request of index i, of
\* 300 ms but after the last one.
retry_sleep(i) == IF i < 2 THEN RetrySleep ELSE 0

\* The task of request_keyframe_with_retries sends one of its three requests,
\* its sleep of 300 ms over, and sleeps again.
BurstSend(k) ==
    /\ k \in DOMAIN tasks
    /\ tasks[k].burst < 3
    /\ now >= tasks[k].due
    /\ tasks' = [tasks EXCEPT ![k].burst = @ + 1,
                               ![k].due = now + retry_sleep(tasks[k].burst),
                               ![k].requested = Append(@, now)]
    /\ bcast' = [bcast EXCEPT ![<<tasks[k].obj, tasks[k].track>>].inbox = @ + 1]
    /\ UNCHANGED <<peers, gvars, pvars, psess, publishers, metrics, ssess,
                   subscribers, sent, upd, now>>

\* A PLI task that never drops a request.
pli_never_throttled(last, t) == FALSE

\* The PLI task: a request is dropped when the last PLI was less than 500 ms
\* before the time t the task has read.
pli_throttled(last, t) == last # -1 /\ t - last < PliMinInterval

\* A PLI task that serves the requests of every kind of track.
pli_skips_no_kind(kind) == FALSE

\* The PLI task: the requests of a track whose kind is not video are dropped.
pli_skips_kind(kind) == kind # "video"

\* The PLI task takes a request from its inbox: it drops it for a track that
\* is not video or when throttled; otherwise it reads the clock, stores the
\* time in last_pli_time and calls write_rtcp with a PLI.
PliTake(o, t) ==
    LET b == bcast[<<o, t>>] IN
    /\ <<o, t>> \in DOMAIN bcast
    /\ ~psess[o].dropped
    /\ b.pli_task = "idle"
    /\ b.inbox > 0
    /\ bcast' = [bcast EXCEPT ![<<o, t>>] =
                    IF pli_skips_kind(t) \/ pli_throttled(b.last_pli_time, now)
                    THEN [b EXCEPT !.inbox = @ - 1]
                    ELSE [b EXCEPT !.inbox = @ - 1,
                                   !.last_pli_time = now,
                                   !.pli_task = "writing",
                                   !.plis = Append(@, [at |-> now, res |-> "pending"])]]
    /\ UNCHANGED <<peers, gvars, pvars, sfuvars, upd, now>>

\* The PLI task: write_rtcp returns, Ok or an error, which is logged.
PliWritten(o, t, ok) ==
    LET b == bcast[<<o, t>>] IN
    /\ <<o, t>> \in DOMAIN bcast
    /\ b.pli_task = "writing"
    /\ bcast' = [bcast EXCEPT ![<<o, t>>] =
                    [b EXCEPT !.pli_task = "idle",
                              !.plis[Len(b.plis)].res = IF ok THEN "ok" ELSE "failed"]]
    /\ UNCHANGED <<peers, gvars, pvars, sfuvars, upd, now>>

\* The clock advances by one tick.
Tick(maxTime) ==
    /\ now < maxTime
    /\ now' = now + 1
    /\ UNCHANGED <<peers, gvars, pvars, sfuvars, upd, bcast>>

\* The task a dropped session spawned: pc.close() returns.
PcCloseTask(o) ==
    /\ \/ /\ o \in DOMAIN ssess
          /\ ssess[o].pc = "closing"
          /\ ssess' = [ssess EXCEPT ![o].pc = "closed"]
          /\ UNCHANGED psess
       \/ /\ o \in DOMAIN psess
          /\ psess[o].pc = "closing"
          /\ psess' = [psess EXCEPT ![o].pc = "closed"]
          /\ UNCHANGED ssess
    /\ UNCHANGED <<peers, gvars, pvars, publishers, metrics, subscribers, tasks,
                   sent>>
    /\ UNCHANGED bvars

\* The peer connection of a session enters the Failed state and the callback
\* of setup_connection_state_handler runs: it logs the state.
PcFailed(o) ==
    /\ \/ /\ o \in DOMAIN ssess
          /\ ssess[o].pc = "open"
          /\ ssess' = [ssess EXCEPT ![o].pc = "failed"]
          /\ UNCHANGED psess
       \/ /\ o \in DOMAIN psess
          /\ psess[o].pc = "open"
          /\ psess' = [psess EXCEPT ![o].pc = "failed"]
          /\ UNCHANGED ssess
    /\ UNCHANGED <<peers, gvars, pvars, publishers, metrics, subscribers, tasks,
                   sent>>
    /\ UNCHANGED bvars

\* ------------------------------------------------------------ specifications
Init ==
    /\ peers = {}
    /\ gpc = [g \in Grabbers |-> "idle"]
    /\ gname = [g \in Grabbers |-> ""]
    /\ gout = [g \in Grabbers |-> <<>>]
    /\ goffers = [g \in Grabbers |-> 0]
    /\ gin = [g \in Grabbers |-> NoMsg]
    /\ glog = <<>>
    /\ gices = [g \in Grabbers |-> 0]
    /\ gret = [g \in Grabbers |-> NoRet]
    /\ gres = [g \in Grabbers |-> ""]
    /\ gws = [g \in Grabbers |-> NewWs]
    /\ psess = <<>>
    /\ publishers = [g \in Grabbers |-> NoObj]
    /\ metrics = [publishers |-> 0, subscribers |-> 0]
    /\ ppc = [p \in Players |-> "idle"]
    /\ pfirst = [p \in Players |-> NoMsg]
    /\ pout = [p \in Players |-> <<>>]
    /\ poffers = [p \in Players |-> 0]
    /\ pin = [p \in Players |-> NoMsg]
    /\ pcall = [p \in Players |-> NoCall]
    /\ pices = [p \in Players |-> 0]
    /\ pret = [p \in Players |-> NoRet]
    /\ pres = [p \in Players |-> ""]
    /\ pws = [p \in Players |-> NewWs]
    /\ ssess = <<>>
    /\ subscribers = [p \in Players |-> NoObj]
    /\ tasks = <<>>
    /\ sent = <<>>
    /\ upd = NoUpdate
    /\ bcast = <<>>
    /\ now = 0

\* The grabber actions but the receipt of a message, for the sockets G.
GrabberSteps(G) ==
    \/ \E g \in G, ok \in BOOLEAN : AddPublisherNewPc(g, ok)
    \/ \E g \in G, ok \in BOOLEAN : AddPublisherFinish(g, ok)
    \/ \E g \in G : GrabberLeave(g)
    \/ \E g \in G : RemovePublisher(g)

\* The add_subscriber steps and the end of the handler, for the sockets P.
PlayerSteps(P) ==
    \/ \E p \in P, ok \in BOOLEAN : AddSubscriberNewPc(p, ok)
    \/ \E p \in P, t \in TrackIds, ok \in BOOLEAN : AddSubscriberAttach(p, t, ok)
    \/ \E p \in P, ok \in BOOLEAN : AddSubscriberFinish(p, ok)
    \/ \E p \in P : PlayerLeave(p)

ValidOffer == [event |-> "OFFER", data |-> TRUE, sdp_ok |-> TRUE]
ValidAuth == [frame |-> "text", decodes |-> TRUE, event |-> "AUTH", cred |-> "test"]
OfferFor(n) == [event |-> "OFFER", data |-> TRUE, peer_name |-> n, sdp_ok |-> TRUE]

\* Two grabbers connect under any names and publish.
NextGrabbers ==
    \/ \E g \in Grabbers, n \in Names : GrabberConnect(g, n)
    \/ \E g \in Grabbers : GrabberOffer(g, ValidOffer, MaxOffers)
    \/ GrabberSteps(Grabbers)
    \/ \E g \in Grabbers : RemovePublisherAgain(g)

SpecGrabbers == Init /\ [][NextGrabbers]_vars

\* One grabber and every OFFER / OFFER_ANSWER message it can send.
NextOffers ==
    \/ \E n \in Names : GrabberConnect("g1", n)
    \/ \E msg \in GrabberOffers : GrabberOffer("g1", msg, MaxOffers)
    \/ \E o \in DOMAIN psess : OnTrack(o, "video")
    \/ GrabberSteps({"g1"})

SpecOffers == Init /\ [][NextOffers]_vars

\* One grabber that publishes once under the name alice, and two players with
\* every first message and every OFFER message they can send.
NextSignaling ==
    \/ GrabberConnect("g1", "alice")
    \/ GrabberOffer("g1", ValidOffer, 1)
    \/ OnTrack(PubObj("g1", 1), "video")
    \/ GrabberSteps({"g1"})
    \/ \E p \in Players : PlayerConnect(p)
    \/ \E p \in Players, msg \in AuthInputs : PlayerAuth(p, msg)
    \/ \E p \in Players, msg \in PlayerOffers : PlayerOffer(p, msg, 1)
    \/ \E p \in Players, msg \in PlayerIces, ok \in BOOLEAN :
           PlayerIce(p, msg, ok, MaxIces)
    \/ PlayerSteps(Players)

SpecSignaling == Init /\ [][NextSignaling]_vars

\* One publisher and two players that subscribe to it.
NextSubscribers ==
    \/ GrabberConnect("g1", "alice")
    \/ GrabberOffer("g1", ValidOffer, MaxOffers)
    \/ OnTrack(PubObj("g1", 1), "video")
    \/ GrabberSteps({"g1"})
    \/ \E p \in Players : PlayerConnect(p)
    \/ \E p \in Players : PlayerAuth(p, ValidAuth)
    \/ \E p \in Players : PlayerOffer(p, OfferFor("alice"), 1)
    \/ PlayerSteps(Players)

SpecSubscribers == Init /\ [][NextSubscribers]_vars

\* One publisher with two tracks, and one player that sends several OFFERs
\* and receives the media.
NextMedia ==
    \/ GrabberConnect("g1", "alice")
    \/ GrabberOffer("g1", ValidOffer, 1)
    \/ \E t \in TrackIds : OnTrack(PubObj("g1", 1), t)
    \/ GrabberSteps({"g1"})
    \/ PlayerConnect("p1")
    \/ PlayerAuth("p1", ValidAuth)
    \/ PlayerOffer("p1", OfferFor("alice"), MaxOffers)
    \/ PlayerSteps({"p1"})
    \/ \E o \in DOMAIN psess, t \in TrackIds : ProducerSend(o, t, MaxPackets)
    \/ \E k \in DOMAIN tasks, ok \in BOOLEAN : ConsumerWrite(k, ok)
    \/ \E o \in DOMAIN ssess \cup DOMAIN psess : PcCloseTask(o)

SpecMedia == Init /\ [][NextMedia]_vars

\* Two grabbers whose WebSockets may fail under the writer tasks of their
\* sessions.
NextWire ==
    \/ \E g \in Grabbers, n \in Names : GrabberConnect(g, n)
    \/ \E g \in Grabbers : GrabberOffer(g, ValidOffer, 1)
    \/ GrabberSteps(Grabbers)
    \/ \E g \in Grabbers, ok \in BOOLEAN : GrabberWriter(g, ok)

SpecWire == Init /\ [][NextWire]_vars

\* One publisher and one subscriber whose peer connections may fail.
NextTerminal ==
    \/ GrabberConnect("g1", "alice")
    \/ GrabberOffer("g1", ValidOffer, 1)
    \/ OnTrack(PubObj("g1", 1), "video")
    \/ GrabberSteps({"g1"})
    \/ PlayerConnect("p1")
    \/ PlayerAuth("p1", ValidAuth)
    \/ PlayerOffer("p1", OfferFor("alice"), 1)
    \/ PlayerSteps({"p1"})
    \/ \E o \in DOMAIN ssess \cup DOMAIN psess : PcFailed(o)
    \/ \E o \in DOMAIN ssess \cup DOMAIN psess : PcCloseTask(o)

\* What the server does by itself, given the time: the calls in flight return
\* and the spawned tasks run. Sockets and peers act or not.
ServerSteps ==
    \/ \E g \in Grabbers, ok \in BOOLEAN : AddPublisherNewPc(g, ok)
    \/ \E g \in Grabbers, ok \in BOOLEAN : AddPublisherFinish(g, ok)
    \/ \E g \in Grabbers : RemovePublisher(g)
    \/ \E p \in Players, ok \in BOOLEAN : AddSubscriberNewPc(p, ok)
    \/ \E p \in Players, t \in TrackIds, ok \in BOOLEAN : AddSubscriberAttach(p, t, ok)
    \/ \E p \in Players, ok \in BOOLEAN : AddSubscriberFinish(p, ok)
    \/ \E o \in DOMAIN ssess \cup DOMAIN psess : PcCloseTask(o)

\* One grabber and one player that also send texts their loops do not act on.
NextLoop ==
    \/ GrabberConnect("g1", "alice")
    \/ GrabberOffer("g1", ValidOffer, 1)
    \/ \E msg \in OtherTexts : GrabberOther("g1", msg)
    \/ OnTrack(PubObj("g1", 1), "video")
    \/ GrabberSteps({"g1"})
    \/ PlayerConnect("p1")
    \/ PlayerAuth("p1", ValidAuth)
    \/ PlayerOffer("p1", OfferFor("alice"), 1)
    \/ \E msg \in OtherTexts : PlayerOther("p1", msg)
    \/ PlayerSteps({"p1"})

SpecLoop == Init /\ [][NextLoop]_vars

\* One video broadcaster and the consumers of two players, every call
\* succeeding; the consumers may stall, lag and fail.
NextFanout ==
    \/ GrabberConnect("g1", "alice")
    \/ GrabberOffer("g1", ValidOffer, 1)
    \/ AddPublisherNewPc("g1", TRUE)
    \/ AddPublisherFinish("g1", TRUE)
    \/ OnTrack(PubObj("g1", 1), "video")
    \/ \E p \in Players : PlayerConnect(p)
    \/ \E p \in Players : PlayerAuth(p, ValidAuth)
    \/ \E p \in Players : PlayerOffer(p, OfferFor("alice"), 1)
    \/ \E p \in Players : AddSubscriberNewPc(p, TRUE)
    \/ \E p \in Players : AddSubscriberAttach(p, "video", TRUE)
    \/ \E p \in Players : AddSubscriberFinish(p, TRUE)
    \/ ProducerSend(PubObj("g1", 1), "video", MaxFan)
    \/ \E k \in DOMAIN tasks, ok \in BOOLEAN : ConsumerWrite(k, ok)
    \/ \E k \in DOMAIN tasks : ConsumerLagged(k)

SpecFanout == Init /\ [][NextFanout]_vars

\* One video broadcaster and one consumer that falls far behind.
NextLag ==
    \/ GrabberConnect("g1", "alice")
    \/ GrabberOffer("g1", ValidOffer, 1)
    \/ AddPublisherNewPc("g1", TRUE)
    \/ AddPublisherFinish("g1", TRUE)
    \/ OnTrack(PubObj("g1", 1), "video")
    \/ PlayerConnect("p1")
    \/ PlayerAuth("p1", ValidAuth)
    \/ PlayerOffer("p1", OfferFor("alice"), 1)
    \/ AddSubscriberNewPc("p1", TRUE)
    \/ AddSubscriberAttach("p1", "video", TRUE)
    \/ AddSubscriberFinish("p1", TRUE)
    \/ ProducerSend(PubObj("g1", 1), "video", MaxRead)
    \/ \E k \in DOMAIN tasks, ok \in BOOLEAN : ConsumerWrite(k, ok)
    \/ \E k \in DOMAIN tasks : ConsumerLagged(k)

SpecLag == Init /\ [][NextLag]_vars

\* One publisher with a subscriber, and callers of update_publisher and
\* update_subscriber.
NextUpdate ==
    \/ GrabberConnect("g1", "alice")
    \/ GrabberOffer("g1", ValidOffer, 1)
    \/ OnTrack(PubObj("g1", 1), "video")
    \/ GrabberSteps({"g1"})
    \/ PlayerConnect("p1")
    \/ PlayerAuth("p1", ValidAuth)
    \/ PlayerOffer("p1", OfferFor("alice"), 1)
    \/ PlayerSteps({"p1"})
    \/ \E id \in Grabbers : UpdatePublisher(id)
    \/ \E kind \in {"Ok", "SetRemoteDescription", "CreateAnswer",
                     "SetLocalDescription"} : UpdatePublisherReturn(kind)
    \/ \E id \in Players : UpdateSubscriber(id)

SpecUpdate == Init /\ [][NextUpdate]_vars

SpecTerminal == Init /\ [][NextTerminal]_vars /\ WF_vars(ServerSteps)

\* One video broadcaster with a subscriber, the keyframe requests of the
\* subscription and of the subscriber, and the PLI task.
NextPli ==
    \/ GrabberConnect("g1", "alice")
    \/ GrabberOffer("g1", ValidOffer, 1)
    \/ AddPublisherNewPc("g1", TRUE)
    \/ AddPublisherFinish("g1", TRUE)
    \/ OnTrack(PubObj("g1", 1), "video")
    \/ PlayerConnect("p1")
    \/ PlayerAuth("p1", ValidAuth)
    \/ PlayerOffer("p1", OfferFor("alice"), 1)
    \/ AddSubscriberNewPc("p1", TRUE)
    \/ AddSubscriberAttach("p1", "video", TRUE)
    \/ AddSubscriberFinish("p1", TRUE)
    \/ RequestKeyframe(PubObj("g1", 1), "video", MaxInbox)
    \/ \E k \in DOMAIN tasks : BurstSend(k)
    \/ PliTake(PubObj("g1", 1), "video")
    \/ \E ok \in BOOLEAN : PliWritten(PubObj("g1", 1), "video", ok)
    \/ Tick(MaxTime)

SpecPli == Init /\ [][NextPli]_vars

\* One publisher with a video and an audio track and a subscriber whose audio
\* consumer stalls and lags; the keyframe requests and the PLI tasks of both.
NextAudio ==
    \/ GrabberConnect("g1", "alice")
    \/ GrabberOffer("g1", ValidOffer, 1)
    \/ AddPublisherNewPc("g1", TRUE)
    \/ AddPublisherFinish("g1", TRUE)
    \/ \E t \in TrackIds : OnTrack(PubObj("g1", 1), t)
    \/ PlayerConnect("p1")
    \/ PlayerAuth("p1", ValidAuth)
    \/ PlayerOffer("p1", OfferFor("alice"), 1)
    \/ AddSubscriberNewPc("p1", TRUE)
    \/ \E t \in TrackIds : AddSubscriberAttach("p1", t, TRUE)
    \/ AddSubscriberFinish("p1", TRUE)
    \/ ProducerSend(PubObj("g1", 1), "audio", MaxRead)
    \/ \E k \in DOMAIN tasks : ConsumerLagged(k)
    \/ \E k \in DOMAIN tasks : BurstSend(k)
    \/ \E t \in TrackIds : PliTake(PubObj("g1", 1), t)
    \/ \E t \in TrackIds, ok \in BOOLEAN : PliWritten(PubObj("g1", 1), t, ok)

SpecAudio == Init /\ [][NextAudio]_vars

\* One publisher with a video and an audio track and the subscriptions of two
\* players, with the tasks of request_keyframe_with_retries and the clock.
NextBurst ==
    \/ GrabberConnect("g1", "alice")
    \/ GrabberOffer("g1", ValidOffer, 1)
    \/ AddPublisherNewPc("g1", TRUE)
    \/ AddPublisherFinish("g1", TRUE)
    \/ \E t \in TrackIds : OnTrack(PubObj("g1", 1), t)
    \/ \E p \in Players : PlayerConnect(p)
    \/ \E p \in Players : PlayerAuth(p, ValidAuth)
    \/ \E p \in Players : PlayerOffer(p, OfferFor("alice"), 1)
    \/ \E p \in Players : AddSubscriberNewPc(p, TRUE)
    \/ \E p \in Players, t \in TrackIds : AddSubscriberAttach(p, t, TRUE)
    \/ \E p \in Players : AddSubscriberFinish(p, TRUE)
    \/ \E k \in DOMAIN tasks : BurstSend(k)
    \/ Tick(MaxTime)

SpecBurst == Init /\ [][NextBurst]_vars

\* Two grabbers that publish under different names, and one player that
\* subscribes to either, several times.
NextMetrics ==
    \/ GrabberConnect("g1", "alice")
    \/ GrabberConnect("g2", "bob")
    \/ \E g \in Grabbers : GrabberOffer(g, ValidOffer, 1)
    \/ \E g \in Grabbers : OnTrack(PubObj(g, 1), "video")
    \/ GrabberSteps(Grabbers)
    \/ PlayerConnect("p1")
    \/ PlayerAuth("p1", ValidAuth)
    \/ \E n \in Names : PlayerOffer("p1", OfferFor(n), MaxOffers)
    \/ PlayerSteps({"p1"})

SpecMetrics == Init /\ [][NextMetrics]_vars

\* Two grabbers that register under any names, send PING texts and leave.
NextRegistry ==
    \/ \E g \in Grabbers, n \in Names : GrabberConnect(g, n)
    \/ \E g \in Grabbers, msg \in GrabberPings : GrabberTextPing(g, msg)
    \/ \E g \in Grabbers : GrabberLeave(g)
    \/ \E g \in Grabbers : RemovePublisher(g)

SpecRegistry == Init /\ [][NextRegistry]_vars

\* One publisher whose handler ends while the add_subscriber call of a player
\* holds its Ref into the publishers map.
NextBlocking ==
    \/ GrabberConnect("g1", "alice")
    \/ GrabberOffer("g1", ValidOffer, 1)
    \/ OnTrack(PubObj("g1", 1), "video")
    \/ GrabberSteps({"g1"})
    \/ RemovePublisherBlock("g1")
    \/ PlayerConnect("p1")
    \/ PlayerAuth("p1", ValidAuth)
    \/ PlayerOffer("p1", OfferFor("alice"), 1)
    \/ PlayerSteps({"p1"})

\* One video broadcaster with a consumer, whose source track may close.
NextProducerEnd ==
    \/ GrabberConnect("g1", "alice")
    \/ GrabberOffer("g1", ValidOffer, 1)
    \/ OnTrack(PubObj("g1", 1), "video")
    \/ GrabberSteps({"g1"})
    \/ PlayerConnect("p1")
    \/ PlayerAuth("p1", ValidAuth)
    \/ PlayerOffer("p1", OfferFor("alice"), 1)
    \/ PlayerSteps({"p1"})
    \/ ProducerSend(PubObj("g1", 1), "video", MaxPackets)
    \/ ProducerEnd(PubObj("g1", 1), "video")
    \/ \E k \in DOMAIN tasks, ok \in BOOLEAN : ConsumerWrite(k, ok)

\* What the consumer tasks do by themselves, given the time.
ConsumerSteps ==
    \/ \E k \in DOMAIN tasks : ConsumerWrite(k, TRUE)
    \/ \E k \in DOMAIN tasks : ConsumerLagged(k)

SpecProducerEnd ==
    Init /\ [][NextProducerEnd]_vars /\ WF_vars(ServerSteps) /\ WF_vars(ConsumerSteps)

SpecBlocking == Init /\ [][NextBlocking]_vars /\ WF_vars(ServerSteps)

\* Inbound GRABBER_ICE messages: with or without the ice field.
GrabberIces == {[event |-> "GRABBER_ICE", data |-> d] : d \in BOOLEAN}

\* One grabber and one player that send ICE candidates before and after their
\* OFFERs.
NextIce ==
    \/ GrabberConnect("g1", "alice")
    \/ GrabberOffer("g1", ValidOffer, 1)
    \/ \E msg \in GrabberIces, ok \in BOOLEAN : GrabberIce("g1", msg, ok, MaxIces)
    \/ OnTrack(PubObj("g1", 1), "video")
    \/ GrabberSteps({"g1"})
    \/ PlayerConnect("p1")
    \/ PlayerAuth("p1", ValidAuth)
    \/ PlayerOffer("p1", OfferFor("alice"), 1)
    \/ \E msg \in PlayerIces, ok \in BOOLEAN : PlayerIce("p1", msg, ok, MaxIces)
    \/ PlayerSteps({"p1"})

SpecIce == Init /\ [][NextIce]_vars

\* One grabber and one player, with the writer tasks of their sessions.
NextSockets ==
    \/ GrabberConnect("g1", "alice")
    \/ GrabberOffer("g1", ValidOffer, 1)
    \/ GrabberSteps({"g1"})
    \/ GrabberPing("g1", MaxPongs)
    \/ GrabberServerIce("g1", 1, MaxServerIce)
    \/ \E ok \in BOOLEAN : GrabberWriter("g1", ok)
    \/ PlayerConnect("p1")
    \/ \E msg \in AuthInputs : PlayerAuth("p1", msg)
    \/ PlayerPing("p1", MaxPongs)
    \/ PlayerLeave("p1")
    \/ \E ok \in BOOLEAN : PlayerWriter("p1", ok)

SpecSockets == Init /\ [][NextSockets]_vars

\* ------------------------------------------------------------------ claims
\* C1: in every reachable state the publishers map holds between 0 and
\* max_publishers entries, add_publisher calls running concurrently included.
C1_PublisherLimit ==
    /\ publishers_len(publishers) >= 0
    /\ publishers_len(publishers) <= max_publishers

\* C2: in every reachable state, for every publisher, the subscriber sessions
\* whose publisher_id is that publisher number at most
\* max_subscribers_per_publisher, add_subscriber calls running concurrently
\* included.
C2_SubscriberLimit ==
    \A g \in Grabbers :
        subscriber_count(subscribers, ssess, g) <= max_subscribers_per_publisher

\* C3: once remove_publisher has removed a session from the publishers map the
\* session is destroyed: nothing holds it any more (the on_track closure
\* included), the close of its peer connection has been spawned, and none of
\* the consumer tasks of its broadcasters is still running.
C3_RemovedSessionDestroyed ==
    \A o \in DOMAIN psess :
        psess[o].removed =>
            /\ psess[o].holders = {}
            /\ psess[o].dropped
            /\ psess[o].pc \in {"closing", "closed"}
            /\ \A k \in DOMAIN tasks :
                   tasks[k].obj = o => tasks[k].state # "running"

\* C4: after remove_subscriber has returned for a player (its handler is
\* closed) no consumer task ever created for that player writes another RTP
\* packet to its local track, whatever the number of OFFERs the player sent.
C4_NoWriteAfterRemove ==
    [][\A k \in DOMAIN tasks :
           ppc[tasks[k].sub] = "closed" => tasks'[k].written = tasks[k].written]_vars

\* C5: at the step in which add_subscriber succeeds for player p (the new
\* session is inserted), every broadcaster of the snapshot has exactly one
\* entry in the session's track mapping, its local track id being the one
\* made of the source track and p, and exactly one running consumer of p.
C5_OneConsumerPerBroadcaster ==
    [][\A p \in Players :
           (/\ ppc[p] = "as_sdp"
            /\ subscribers'[p] # subscribers[p]
            /\ subscribers'[p] = SubObj(p, poffers[p]))
           => LET tm == ssess'[subscribers'[p]].track_mapping IN
              \A t \in pcall[p].snapshot :
                  /\ Cardinality({i \in DOMAIN tm : tm[i][1] = t}) = 1
                  /\ \A i \in DOMAIN tm :
                         tm[i][1] = t => tm[i][2] = local_track_id(t, p)
                  /\ Cardinality({k \in DOMAIN tasks' :
                                     /\ tasks'[k].obj = pcall[p].obj
                                     /\ tasks'[k].track = t
                                     /\ tasks'[k].sub = p
                                     /\ tasks'[k].state = "running"}) = 1]_vars

\* C6, as stated: from the success of add_publisher for a grabber until
\* remove_publisher is called for it, get_peer_by_name on the grabber's name
\* returns the grabber's entry, another grabber connecting under the same name
\* included.
C6_NameResolvesWhilePublished ==
    \A g \in Grabbers :
        (publishers[g] # NoObj /\ gpc[g] \in {"loop", "ap_newpc", "ap_sdp", "cleanup"})
        => get_peer_by_name(peers, gname[g]).socket_id = g

\* C6, amended: from the success of add_publisher for a grabber until the
\* grabber's receive loop ends, get_peer_by_name on the grabber's name returns
\* the grabber's entry, unless another grabber has connected under the same
\* name after it.
C6_NameResolvesUntilLoopEnds ==
    \A g \in Grabbers :
        (/\ publishers[g] # NoObj
         /\ gpc[g] \in {"loop", "ap_newpc", "ap_sdp"}
         /\ ~ \E i, j \in DOMAIN glog :
                 /\ glog[i] = g
                 /\ i < j
                 /\ gname[glog[j]] = gname[g])
        => get_peer_by_name(peers, gname[g]).socket_id = g

\* A publishing grabber still resolves by its name after an earlier grabber
\* of the same name has connected, been replaced and left.
C6_Witness ==
    \E g, h \in Grabbers :
        /\ glog = <<h, g>>
        /\ gname[h] = gname[g]
        /\ gpc[h] = "closed"
        /\ gpc[g] = "loop"
        /\ publishers[g] # NoObj
        /\ get_peer_by_name(peers, gname[g]).socket_id = g

\* C7: the registry never holds more than one entry for a name, and the
\* registration of a grabber, under a name already registered or not, leaves
\* get_peer_by_name on that name returning the grabber's own session id.
C7_OneEntryPerName ==
    [][/\ \A n \in Names : Cardinality({e \in peers' : e.name = n}) <= 1
       /\ \A g \in Grabbers :
              (gpc[g] = "idle" /\ gpc'[g] = "loop")
              => get_peer_by_name(peers', gname'[g]).socket_id = g]_vars

\* A second grabber has registered the name of a grabber that is still
\* connected, and the name resolves to the second.
C7_Witness ==
    \E g, h \in Grabbers :
        /\ glog = <<g, h>>
        /\ gname[g] = gname[h]
        /\ gpc[g] = "loop"
        /\ gpc[h] = "loop"
        /\ Cardinality({e \in peers : e.name = gname[h]}) = 1
        /\ get_peer_by_name(peers, gname[h]).socket_id = h

\* C8: whenever the grabber handler is not inside add_publisher, the replies
\* (ANSWER or OFFER_FAILED) enqueued on its socket are as many as the OFFER and
\* OFFER_ANSWER messages it has received: one reply for each.
C8_OneReplyPerOffer ==
    \A g \in Grabbers :
        gpc[g] \in {"loop", "cleanup", "closed"}
        => Cardinality({i \in DOMAIN gout[g] :
                           gout[g][i] \in {"ANSWER", "OFFER_FAILED"}}) = goffers[g]

\* C9: the step that takes a player's OFFER (with its offer and a peer name)
\* while the registry has no peer of that name enqueues OFFER_FAILED on the
\* player's socket and creates no subscriber session.
C9_MissingPeerAnswered ==
    [][\A p \in Players :
           (/\ poffers'[p] = poffers[p] + 1
            /\ pin'[p].data
            /\ pin'[p].peer_name # ""
            /\ get_peer_by_name(peers, pin'[p].peer_name) = NoPeer)
           => /\ pout'[p] = Append(pout[p], "OFFER_FAILED")
              /\ subscribers' = subscribers
              /\ ssess' = ssess
              /\ ppc'[p] = "loop"]_vars

\* C10: on a player socket the first outbound message is AUTH_REQUEST, and
\* INIT_PEER is sent, a message is taken by the receive loop (OFFER or
\* PLAYER_ICE), add_subscriber is entered or a session exists only if the
\* first inbound message was a text AUTH message with an accepted credential.
C10_AuthBeforeAnything ==
    \A p \in Players :
        /\ pout[p] # <<>> => Head(pout[p]) = "AUTH_REQUEST"
        /\ (\/ \E i \in DOMAIN pout[p] :
                   pout[p][i] \in {"INIT_PEER", "ANSWER", "OFFER_FAILED"}
            \/ pin[p] # NoMsg
            \/ poffers[p] > 0
            \/ ppc[p] \in {"loop", "as_newpc", "as_attach", "as_sdp", "closed"}
            \/ subscribers[p] # NoObj)
           => /\ pfirst[p].frame = "text"
              /\ pfirst[p].decodes
              /\ pfirst[p].event = "AUTH"
              /\ pfirst[p].cred # ""
              /\ validate_credentials(pfirst[p].cred)

\* An authenticated player is inside add_subscriber for its OFFER while the
\* other player was turned away at authentication.
C10_Witness ==
    \E p, q \in Players :
        /\ ppc[p] = "as_newpc"
        /\ pin[p].event = "OFFER"
        /\ pfirst[p].event = "AUTH"
        /\ ppc[q] = "rejected"
        /\ pfirst[q].event = "OFFER"

\* C11: a player whose first message (a text or a non-text frame) did not
\* authenticate it has been sent AUTH_FAILED exactly once and no INIT_PEER,
\* and its handler has ended without taking another inbound message.
C11_AuthFailureAnswered ==
    \A p \in Players :
        (ppc[p] = "rejected" /\ pfirst[p].frame \in {"text", "binary"})
        => /\ Cardinality({i \in DOMAIN pout[p] : pout[p][i] = "AUTH_FAILED"}) = 1
           /\ \A i \in DOMAIN pout[p] : pout[p][i] # "INIT_PEER"
           /\ pin[p] = NoMsg
           /\ poffers[p] = 0
           /\ pices[p] = 0

\* C12: a player handler that saw no message within the 10 s after
\* AUTH_REQUEST has returned the AuthenticationFailed error, and the SFU holds
\* no subscriber session under its id.
C12_TimeoutIsAuthenticationFailed ==
    \A p \in Players :
        (ppc[p] = "rejected" /\ pfirst[p].frame = "timeout")
        => /\ pres[p] = "AuthenticationFailed"
           /\ subscribers[p] = NoObj

\* C13: once the handler of a grabber has returned, through the end of its
\* receive loop or through a failed send, the registry has no entry with the
\* grabber's session id and the publishers map has no session under it.
C13_HandlerEndCleansUp ==
    \A g \in Grabbers :
        gres[g] # ""
        => /\ \A e \in peers : e.socket_id # g
           /\ publishers[g] = NoObj

\* The handler of a grabber that had published has returned while another
\* grabber is still registered and publishing.
C13_Witness ==
    \E g, h \in Grabbers :
        /\ gres[g] = "Ok"
        /\ PubObj(g, 1) \in DOMAIN psess
        /\ psess[PubObj(g, 1)].removed
        /\ publishers[g] = NoObj
        /\ publishers[h] # NoObj
        /\ get_peer_by_name(peers, gname[h]).socket_id = h

\* C14: a second remove_publisher for a grabber, after its add_publisher and
\* the remove_publisher of its handler, returns Ok and leaves the publishers
\* map, the subscribers map and both counters as the first removal left them.
C14_SecondRemoveIsNoOp ==
    [][\A g \in Grabbers :
           (gret[g].op = "remove_publisher" /\ gret'[g].op = "remove_publisher_again")
           => /\ gret'[g].kind = "Ok"
              /\ publishers' = publishers
              /\ subscribers' = subscribers
              /\ metrics' = metrics]_vars

\* A grabber that published and was removed has been removed a second time
\* while another publisher is still counted.
C14_Witness ==
    \E g, h \in Grabbers :
        /\ gret[g].op = "remove_publisher_again"
        /\ PubObj(g, 1) \in DOMAIN psess
        /\ psess[PubObj(g, 1)].removed
        /\ publishers[h] # NoObj
        /\ metrics.publishers >= 1

\* C15: the remove_subscriber call of a player handler whose id has no session
\* in the subscribers map returns Ok and changes neither the subscribers map,
\* the publishers map, the consumer tasks of any broadcaster, the sessions nor
\* the counters.
C15_RemoveUnknownSubscriber ==
    [][\A p \in Players :
           (ppc[p] = "loop" /\ ppc'[p] = "closed" /\ subscribers[p] = NoObj)
           => /\ pret'[p] = Ret("remove_subscriber", "Ok")
              /\ subscribers' = subscribers
              /\ publishers' = publishers
              /\ tasks' = tasks
              /\ ssess' = ssess
              /\ psess' = psess
              /\ metrics' = metrics]_vars

\* A player without a session has been removed while the other player's
\* session, its consumer and the counter are in place.
C15_Witness ==
    \E p, q \in Players :
        /\ ppc[p] = "closed"
        /\ DOMAIN ssess = {SubObj(q, 1)}
        /\ subscribers[q] = SubObj(q, 1)
        /\ metrics.subscribers = 1
        /\ \E k \in DOMAIN tasks : tasks[k].sub = q /\ tasks[k].state = "running"

\* C16: the step that takes a valid OFFER of a grabber while the publishers
\* map holds max_publishers sessions, and the step that takes a valid OFFER of
\* a player while its publisher has max_subscribers_per_publisher sessions,
\* returns the Internal error naming the limit, does not go on to create a
\* peer connection, and changes no session, no map, no task and no counter.
C16_AdmissionPastTheCap ==
    [][/\ \A g \in Grabbers :
              (/\ goffers'[g] = goffers[g] + 1
               /\ gin'[g].data /\ gin'[g].sdp_ok
               /\ publishers_len(publishers) >= max_publishers)
              => /\ gret'[g].op = "add_publisher"
                 /\ gret'[g].kind = "Internal"
                 /\ gret'[g].limit = <<"publisher", max_publishers>>
                 /\ gpc'[g] = "loop"
                 /\ sfuvars' = sfuvars
       /\ \A p \in Players :
              (/\ poffers'[p] = poffers[p] + 1
               /\ pin'[p].data /\ pin'[p].sdp_ok
               /\ get_peer_by_name(peers, pin'[p].peer_name) # NoPeer
               /\ subscriber_count(subscribers, ssess,
                                   get_peer_by_name(peers, pin'[p].peer_name).socket_id)
                  >= max_subscribers_per_publisher)
              => /\ pret'[p].op = "add_subscriber"
                 /\ pret'[p].kind = "Internal"
                 /\ pret'[p].limit =
                        <<"subscriber",
                          get_peer_by_name(peers, pin'[p].peer_name).socket_id,
                          max_subscribers_per_publisher>>
                 /\ ppc'[p] = "loop"
                 /\ sfuvars' = sfuvars]_vars

\* A grabber and a player have both been refused at the cap, the session of
\* the publisher and that of its one subscriber being in place.
C16_Witness ==
    \E g \in Grabbers, p \in Players :
        /\ gret[g].kind = "Internal"
        /\ pret[p].kind = "Internal"
        /\ publishers[g] # NoObj
        /\ subscriber_count(subscribers, ssess, g) >= 1
        /\ subscribers[p] = NoObj
        /\ metrics = [publishers |-> 1, subscribers |-> 1]

\* C17: the step that takes a PLAYER_ICE message (with its candidate) while
\* the player has no session returns SubscriberNotFound, and the step that
\* takes a GRABBER_ICE message while the grabber has no session returns
\* PublisherNotFound; either changes no SFU state and leaves the handler in
\* its loop with its queue, its OFFER count and its call state as they were,
\* so that a later OFFER is handled as if the candidate had never come.
C17_EarlyIceIsDropped ==
    [][/\ \A p \in Players :
              (pices'[p] = pices[p] + 1 /\ pin'[p].data /\ subscribers[p] = NoObj)
              => /\ pret'[p] = Ret("add_subscriber_ice", "SubscriberNotFound")
                 /\ sfuvars' = sfuvars
                 /\ ppc'[p] = "loop"
                 /\ <<pout, pws, poffers, pcall, pres>>' = <<pout, pws, poffers, pcall, pres>>
       /\ \A g \in Grabbers :
              (gices'[g] = gices[g] + 1 /\ gin'[g].data /\ publishers[g] = NoObj)
              => /\ gret'[g] = Ret("add_publisher_ice", "PublisherNotFound")
                 /\ sfuvars' = sfuvars
                 /\ gpc'[g] = "loop"
                 /\ <<gout, gws, goffers, gres, peers>>' = <<gout, gws, goffers, gres, peers>>]_vars

\* A grabber and a player each sent a candidate and then their one OFFER, and
\* both OFFERs succeeded.
C17_Witness ==
    /\ gices["g1"] = MaxIces
    /\ gin["g1"].event = "OFFER"
    /\ publishers["g1"] = PubObj("g1", 1)
    /\ pices["p1"] = MaxIces
    /\ pin["p1"].event = "OFFER"
    /\ subscribers["p1"] = SubObj("p1", 1)
    /\ pret["p1"] = Ret("add_subscriber", "Ok")
    /\ pout["p1"] = <<"AUTH_REQUEST", "INIT_PEER", "ANSWER">>

\* C18: a publisher session in the publishers map whose peer connection has
\* failed is eventually out of the map, unless the grabber's handler has left
\* its loop to call remove_publisher; and likewise a subscriber session in the
\* subscribers map, unless the player's handler has called remove_subscriber.
C18_TerminalStateRemoves ==
    /\ \A g \in Grabbers :
           (publishers[g] # NoObj /\ psess[publishers[g]].pc = "failed")
           ~> (publishers[g] = NoObj \/ gpc[g] \in {"cleanup", "closed"})
    /\ \A p \in Players :
           (subscribers[p] # NoObj /\ ssess[subscribers[p]].pc = "failed")
           ~> (subscribers[p] = NoObj \/ ppc[p] = "closed")

C20_WireFollowsEnqueueOrder ==
    /\ \A g \in Grabbers :
           /\ gout[g] # <<>> => gout[g][1] = "INIT_PEER"
           /\ \A i \in 1..Len(gws[g].wire) :
                  gws[g].wire[i] = "ANSWER"
                  => \E j \in 1..(i - 1) : gws[g].wire[j] = "INIT_PEER"
           /\ Len(gws[g].wire) <= Len(gout[g])
           /\ gws[g].wire = SubSeq(gout[g], 1, Len(gws[g].wire))
           /\ CanSend(gws[g]) => gws[g].wire \o gws[g].chan = gout[g]
    /\ \A p \in Players :
           /\ Len(pws[p].wire) <= Len(pout[p])
           /\ pws[p].wire = SubSeq(pout[p], 1, Len(pws[p].wire))
           /\ CanSend(pws[p]) => pws[p].wire \o pws[p].chan = pout[p]

\* The grabber's socket has carried INIT_PEER, a candidate, the ANSWER and a
\* PONG, and the player's socket its three messages, two of which were queued
\* together at some moment.
C20_Witness ==
    /\ Len(gws["g1"].wire) = 4
    /\ gws["g1"].wire[1] = "INIT_PEER"
    /\ \E i, j, k \in 2..4 : /\ gws["g1"].wire[i] = "ANSWER"
                             /\ gws["g1"].wire[j] = "SERVER_ICE"
                             /\ gws["g1"].wire[k] = "PONG"
    /\ pws["p1"].wire = <<"AUTH_REQUEST", "INIT_PEER">>
    /\ pws["p1"].chan = <<"PONG">>

\* C21: a grabber or player session whose handler waits in its receive loop
\* eventually has a PING among the messages enqueued on it, unless the
\* handler has left the loop by then (the first of the repeated PINGs).
C21_KeepalivePing ==
    /\ \A g \in Grabbers :
           (gpc[g] = "loop")
           ~> (gpc[g] \in {"cleanup", "closed"} \/ Occurrences(gout[g], "PING") > 0)
    /\ \A p \in Players :
           (ppc[p] = "loop")
           ~> (ppc[p] = "closed" \/ Occurrences(pout[p], "PING") > 0)

\* C22: every step of update_publisher leaves the registry, the handlers, the
\* publishers and subscribers maps, the sessions with their peer connections
\* and broadcasters, the consumer tasks and the counters unchanged; for an id
\* without a session the call returns PublisherNotFound at once; and while the
\* call is in flight the map still holds the session it found, not dropped
\* and with every broadcaster it had.
C22_UpdateKeepsSession ==
    [][/\ upd' # upd => /\ sfuvars' = sfuvars
                        /\ <<peers, gvars, pvars>>' = <<peers, gvars, pvars>>
       /\ \A id \in Grabbers :
              (upd.pc = "idle" /\ upd' # upd /\ upd'.op = "update_publisher"
               /\ upd'.id = id /\ publishers[id] = NoObj)
              => upd' = Update("update_publisher", "idle", id, NoObj,
                               "PublisherNotFound")
       /\ upd.pc = "sdp"
          => /\ publishers'[upd.id] = upd.obj
             /\ psess[upd.obj].broadcasters \subseteq psess'[upd.obj].broadcasters
             /\ ~psess'[upd.obj].dropped]_vars

\* update_publisher has returned Ok for a publisher that has a broadcaster
\* with a running consumer, all still in place; before that a call for an id
\* without a session is possible too.
C22_Witness ==
    /\ upd = Update("update_publisher", "idle", "g1", PubObj("g1", 1), "Ok")
    /\ publishers["g1"] = PubObj("g1", 1)
    /\ psess[PubObj("g1", 1)].broadcasters = {"video"}
    /\ \E k \in DOMAIN tasks : /\ tasks[k].obj = PubObj("g1", 1)
                               /\ tasks[k].state = "running"
                               /\ tasks[k].registered

\* C23: every update_subscriber call, for a subscriber with or without a
\* session, returns Ok and leaves the publishers and subscribers maps, the
\* sessions, the broadcasters and their consumers, and the counters unchanged.
C23_UpdateSubscriberNoOp ==
    [][(upd' # upd /\ upd'.op = "update_subscriber")
       => /\ upd'.ret = "Ok"
          /\ upd'.pc = "idle"
          /\ sfuvars' = sfuvars
          /\ <<peers, gvars, pvars, bcast>>' = <<peers, gvars, pvars, bcast>>]_vars

\* update_subscriber has returned Ok for an id without a session while
\* another subscriber is attached to a broadcaster.
C23_Witness ==
    /\ upd = Update("update_subscriber", "idle", "p2", NoObj, "Ok")
    /\ subscribers["p2"] = NoObj
    /\ subscribers["p1"] = SubObj("p1", 1)
    /\ metrics.subscribers = 1

\* C24: a step in which a receive loop takes a text with an unknown event or
\* one that does not decode changes no registry or SFU state, enqueues and
\* writes nothing on the session, and leaves the handler in its loop; and a
\* handler leaves its loop for the cleanup only by the step that models a
\* Close frame, a read error or the end of the stream.
C24_UnknownTextIgnored ==
    [][/\ \A g \in Grabbers :
              (gin'[g] # gin[g] /\ gin'[g] \in OtherTexts)
              => /\ gpc[g] = "loop" /\ gpc'[g] = "loop"
                 /\ <<peers, sfuvars, bvars>>' = <<peers, sfuvars, bvars>>
                 /\ <<gout, gws, goffers, gres>>' = <<gout, gws, goffers, gres>>
       /\ \A p \in Players :
              (pin'[p] # pin[p] /\ pin'[p] \in OtherTexts)
              => /\ ppc[p] = "loop" /\ ppc'[p] = "loop"
                 /\ <<peers, sfuvars, bvars>>' = <<peers, sfuvars, bvars>>
                 /\ <<pout, pws, poffers, pcall, pres>>'
                        = <<pout, pws, poffers, pcall, pres>>
       /\ \A g \in Grabbers :
              (gpc[g] = "loop" /\ gpc'[g] \in {"cleanup", "closed"})
              => /\ gin'[g] = gin[g]
                 /\ peers' = remove_peer_by_socket_id(peers, g)
       /\ \A p \in Players :
              (ppc[p] = "loop" /\ ppc'[p] = "closed")
              => /\ pin'[p] = pin[p]
                 /\ pret'[p] = Ret("remove_subscriber", "Ok")]_vars

\* With a publisher and a subscriber in place, the grabber's loop has taken a
\* text that does not decode and the player's loop one with an unknown event,
\* and both handlers are still in their loops.
C24_Witness ==
    /\ gin["g1"] = [event |-> "", decodes |-> FALSE]
    /\ gret["g1"] = Ret("handle_grabber_message", "InvalidMessageFormat")
    /\ pin["p1"] = [event |-> "BOGUS", decodes |-> TRUE]
    /\ pret["p1"] = Ret("handle_player_message", "Ok")
    /\ gpc["g1"] = "loop" /\ ppc["p1"] = "loop"
    /\ publishers["g1"] # NoObj /\ subscribers["p1"] # NoObj

\* C26: what a consumer has taken from its channel accounts, in order, for the
\* packets the producer sent after the consumer subscribed: each packet written
\* is the next one after the packets written or skipped before it (so none is
\* repeated, reordered or older than the subscription), the only gaps are the
\* N packets of a Lagged(N), and for a running consumer the packets written,
\* skipped and still queued are together all the packets sent since.
C26_ConsumerFollowsProducer ==
    \A k \in DOMAIN tasks :
        LET b == <<tasks[k].obj, tasks[k].track>>
            last == Walk(tasks[k].got, tasks[k].start)
        IN /\ last # -1
           /\ last <= sent[b]
           /\ tasks[k].state = "running" => last + tasks[k].queued = sent[b]

\* A consumer that subscribed after the first packet has written packets 2
\* and 3, while another has lagged past two packets and written the next.
C26_Witness ==
    \E j, k \in DOMAIN tasks :
        /\ tasks[j].start = 1
        /\ tasks[j].got = <<2, 3>>
        /\ tasks[k].start = 0
        /\ tasks[k].got = <<-2, 3>>

\* C28: while a running consumer is stalled with a full channel behind it (as
\* many packets queued as the channel retains, or more), the producer's send
\* is enabled whenever it has a packet to send, each send puts one more packet
\* behind every running consumer of the broadcaster without touching what they
\* took, and the step in which a consumer takes a packet or a Lagged notice
\* changes no other consumer.
C28_StalledConsumerIsolated ==
    [][\A j \in DOMAIN tasks :
           (/\ tasks[j].state = "running"
            /\ tasks[j].queued >= next_power_of_two(broadcast_channel_capacity))
           => LET o == tasks[j].obj
                  t == tasks[j].track
              IN /\ (/\ bcast[<<o, t>>].read_task = "running"
                     /\ ~psess[o].dropped
                     /\ sent[<<o, t>>] < MaxFan)
                    => ENABLED ProducerSend(o, t, MaxFan)
                 /\ sent'[<<o, t>>] = sent[<<o, t>>] + 1
                    => \A k \in DOMAIN tasks :
                           (/\ tasks[k].obj = o /\ tasks[k].track = t
                            /\ tasks[k].state = "running")
                           => /\ tasks'[k].queued = tasks[k].queued + 1
                              /\ tasks'[k].got = tasks[k].got
                              /\ tasks'[k].state = "running"
                 /\ tasks'[j].got # tasks[j].got
                    => \A k \in DOMAIN tasks \ {j} : tasks'[k] = tasks[k]]_vars

\* One consumer has stalled until it lagged past packets, and another
\* consumer of the same broadcaster has written every packet sent.
C28_Witness ==
    \E j, k \in DOMAIN tasks :
        /\ j # k
        /\ tasks[j].obj = tasks[k].obj /\ tasks[j].track = tasks[k].track
        /\ tasks[j].start = 0 /\ tasks[k].start = 0
        /\ tasks[j].got = <<-2>> /\ tasks[j].queued = 2
        /\ tasks[k].got = <<1, 2, 3, 4>>
        /\ sent[<<tasks[j].obj, tasks[j].track>>] = 4

\* C29: in the step in which a consumer is told Lagged(N), one keyframe
\* request is added to the inbox of its broadcaster if N > 10 and none
\* otherwise, the task is still running, and the packet it takes next is the
\* oldest one the channel retains.
C29_LagRequestsKeyframeOverTen ==
    [][\A k \in DOMAIN tasks :
           LET b == <<tasks[k].obj, tasks[k].track>>
               n == Len(tasks[k].got) + 1
           IN (/\ Len(tasks'[k].got) = n
               /\ tasks'[k].got[n] < 0)
              => /\ bcast'[b].inbox
                        = bcast[b].inbox + (IF -tasks'[k].got[n] > 10 THEN 1 ELSE 0)
                 /\ tasks'[k].state = "running"
                 /\ tasks'[k].queued = next_power_of_two(broadcast_channel_capacity)
                 /\ sent' = sent
                 /\ -tasks'[k].got[n] = tasks[k].queued - tasks'[k].queued]_vars

\* A consumer that stalled behind 13 packets has been told Lagged(11), which
\* put the one request in the inbox, and is running with the two retained
\* packets to take.
C29_Witness ==
    \E k \in DOMAIN tasks :
        /\ tasks[k].got = <<-11>>
        /\ tasks[k].state = "running"
        /\ tasks[k].queued = 2
        /\ bcast[<<tasks[k].obj, tasks[k].track>>].inbox = 1

\* C27: a running consumer task whose broadcaster's producer task has ended
\* is eventually no longer running.
C27_ProducerEndStopsConsumers ==
    \A p \in Players, n \in 1..MaxOffers, t \in TrackIds :
        (/\ TaskId(p, n, t) \in DOMAIN tasks
         /\ tasks[TaskId(p, n, t)].state = "running"
         /\ bcast[<<tasks[TaskId(p, n, t)].obj, t>>].read_task = "ended")
        ~> (/\ TaskId(p, n, t) \in DOMAIN tasks
            /\ tasks[TaskId(p, n, t)].state # "running")

\* C25: for every video broadcaster, any two consecutive PLIs the PLI task
\* has handed to write_rtcp are at least 500 ms apart, and at most one write
\* is in flight: only the last PLI can be pending, and it is exactly while the
\* PLI task is inside write_rtcp.
C25_PliSpacing ==
    \A b \in DOMAIN bcast :
        LET plis == bcast[b].plis IN
        /\ \A i \in 1..(Len(plis) - 1) :
               /\ plis[i + 1].at - plis[i].at >= PliMinInterval
               /\ plis[i].res # "pending"
        /\ (bcast[b].pli_task = "writing")
               <=> (plis # <<>> /\ plis[Len(plis)].res = "pending")

\* Two PLIs have been written, 500 ms apart, and a further request is in the
\* inbox at that time, after the three requests of the subscription.
C25_Witness ==
    \E b \in DOMAIN bcast, k \in DOMAIN tasks :
        /\ Len(bcast[b].plis) = 2
        /\ bcast[b].plis[2].at - bcast[b].plis[1].at = PliMinInterval
        /\ bcast[b].plis[2].res = "ok"
        /\ tasks[k].burst = 3
        /\ bcast[b].inbox > 0

\* C30: whenever the PLI task of a broadcaster is not inside a write,
\* last_pli_time is the time of the last PLI whose write succeeded, and None
\* when no write has succeeded: a failed write has not advanced it.
C30_LastPliTracksSuccess ==
    \A b \in DOMAIN bcast :
        LET plis == bcast[b].plis
            oks == {i \in 1..Len(plis) : plis[i].res = "ok"}
        IN bcast[b].pli_task = "idle"
           => bcast[b].last_pli_time
                  = IF oks = {} THEN -1
                    ELSE plis[CHOOSE i \in oks : \A j \in oks : j <= i].at

\* C31: the PLI task of a broadcaster whose kind is audio never writes a PLI
\* and its last_pli_time stays None, whatever requests reach its inbox; the
\* subscription of an audio track spawns no burst of requests.
C31_AudioNeverPli ==
    \A b \in DOMAIN bcast :
        b[2] = "audio"
        => /\ bcast[b].plis = <<>>
           /\ bcast[b].pli_task = "idle"
           /\ bcast[b].last_pli_time = -1

\* The audio consumer has been told Lagged(11), the request this put in the
\* inbox of the audio broadcaster has been taken by its PLI task, and the
\* video broadcaster of the same publisher has written a PLI.
C31_Witness ==
    \E k \in DOMAIN tasks :
        /\ tasks[k].track = "audio"
        /\ tasks[k].got = <<-11>>
        /\ bcast[<<tasks[k].obj, "audio">>].inbox = 0
        /\ <<tasks[k].obj, "video">> \in DOMAIN bcast
        /\ bcast[<<tasks[k].obj, "video">>].plis # <<>>
        /\ bcast[<<tasks[k].obj, "video">>].plis[1].res = "ok"

\* C32: the subscription of a local track to a video broadcaster is followed
\* by at most three keyframe requests of its own, each adding one request to
\* the inbox of that broadcaster, any two consecutive ones at least 300 ms
\* apart, and none after the third; the subscription itself adds none, and a
\* subscription to an audio broadcaster is followed by none.
C32_AttachBurst ==
    [][\A k \in DOMAIN tasks' :
           LET r == tasks'[k].requested
               b == <<tasks'[k].obj, tasks'[k].track>>
           IN /\ tasks'[k].track # "video" => r = <<>>
              /\ Len(r) <= 3
              /\ \A i \in 1..(Len(r) - 1) : r[i + 1] - r[i] >= RetrySleep
              /\ k \notin DOMAIN tasks
                 => r = <<>> /\ bcast'[b].inbox = bcast[b].inbox
              /\ (k \in DOMAIN tasks /\ tasks[k].requested # r)
                 => /\ Len(r) = Len(tasks[k].requested) + 1
                    /\ bcast'[b].inbox = bcast[b].inbox + 1]_vars

\* The video subscription of a player has sent its three requests, 300 ms
\* apart, which are in the inbox of the video broadcaster, and its audio
\* subscription has sent none.
C32_Witness ==
    \E j, k \in DOMAIN tasks :
        /\ tasks[j].sub = tasks[k].sub
        /\ tasks[j].track = "video" /\ tasks[k].track = "audio"
        /\ Len(tasks[j].requested) = 3
        /\ tasks[j].requested[2] - tasks[j].requested[1] = RetrySleep
        /\ tasks[j].requested[3] - tasks[j].requested[2] = RetrySleep
        /\ tasks[j].burst = 3
        /\ bcast[<<tasks[j].obj, "video">>].inbox = 3
        /\ tasks[k].requested = <<>>
        /\ bcast[<<tasks[k].obj, "audio">>].inbox = 0

\* C33: the step in which the write of a consumer fails ends that consumer
\* and changes no other consumer task, no producer task, no PLI task and no
\* session; and beside an ended consumer the producer's send stays enabled
\* while it has packets to send, and every running consumer of the same
\* broadcaster with a retained packet to take is able to write it.
C33_WriteFailureIsLocal ==
    [][\A k \in DOMAIN tasks :
           /\ (tasks[k].state = "running" /\ tasks'[k].state = "ended")
              => /\ \A j \in DOMAIN tasks \ {k} : tasks'[j] = tasks[j]
                 /\ DOMAIN tasks' = DOMAIN tasks
                 /\ <<bcast, sent, psess, ssess, publishers, subscribers>>'
                        = <<bcast, sent, psess, ssess, publishers, subscribers>>
           /\ tasks[k].state = "ended"
              => LET o == tasks[k].obj
                     t == tasks[k].track
                 IN /\ bcast[<<o, t>>].read_task = "running"
                    /\ bcast[<<o, t>>].pli_task = "idle"
                    /\ sent[<<o, t>>] < MaxFan => ENABLED ProducerSend(o, t, MaxFan)
                    /\ \A j \in DOMAIN tasks :
                           (/\ tasks[j].obj = o /\ tasks[j].track = t
                            /\ tasks[j].state = "running"
                            /\ tasks[j].queued > 0
                            /\ tasks[j].queued
                                   <= next_power_of_two(broadcast_channel_capacity))
                           => ENABLED ConsumerWrite(j, TRUE)]_vars

\* The first write of one consumer failed and the task has ended, while
\* another consumer of the same broadcaster has written the four packets the
\* producer sent.
C33_Witness ==
    \E j, k \in DOMAIN tasks :
        /\ tasks[j].obj = tasks[k].obj /\ tasks[j].track = tasks[k].track
        /\ tasks[k].state = "ended"
        /\ tasks[k].start = 0 /\ tasks[k].got = <<>>
        /\ tasks[j].state = "running"
        /\ tasks[j].start = 0 /\ tasks[j].got = <<1, 2, 3, 4>>

\* C34: a publisher session that remove_publisher took out of the publishers
\* map, and a subscriber session that was dropped from the subscribers map,
\* eventually has its ICE candidate channel closed: the sender held by the
\* on_ice_candidate closure is dropped, which ends the forwarder task.
C34_IceChannelCloses ==
    /\ \A g \in Grabbers, n \in 1..MaxOffers :
           (PubObj(g, n) \in DOMAIN psess /\ psess[PubObj(g, n)].removed)
           ~> (PubObj(g, n) \in DOMAIN psess
               /\ PublisherIceClosed(psess[PubObj(g, n)]))
    /\ \A p \in Players, n \in 1..MaxOffers :
           (SubObj(p, n) \in DOMAIN ssess
            /\ ssess[SubObj(p, n)].pc \in {"closing", "closed"})
           ~> (SubObj(p, n) \in DOMAIN ssess
               /\ SubscriberIceClosed(ssess[SubObj(p, n)]))

\* C35: the step in which add_subscriber returns an error after its loop over
\* the snapshot has begun (add_track or the SDP exchange failed) leaves no
\* consumer task of that request registered with a broadcaster or running,
\* records no subscriber session and does not change the counters.
C35_FailedAddLeavesNoConsumer ==
    [][\A p \in Players :
           (/\ ppc[p] \in {"as_attach", "as_sdp"}
            /\ ppc'[p] = "loop"
            /\ pret'[p].kind # "Ok")
           => /\ \A k \in DOMAIN tasks' :
                     (tasks'[k].sub = p /\ k = TaskId(p, poffers[p], tasks'[k].track))
                     => /\ ~tasks'[k].registered
                        /\ tasks'[k].state # "running"
              /\ subscribers' = subscribers
              /\ ssess' = ssess
              /\ metrics' = metrics]_vars

\* C36: every running consumer task is registered in the subscribers map of
\* its broadcaster, and its request is still inside add_subscriber or its
\* session is the one recorded under the subscriber id; and a subscriber with
\* no call in flight has at most one running consumer per broadcaster.
C36_RunningConsumersAreRegistered ==
    /\ \A k \in DOMAIN tasks :
           tasks[k].state = "running"
           => /\ tasks[k].registered
              /\ \/ /\ ppc[tasks[k].sub] \in {"as_attach", "as_sdp"}
                    /\ k[2] = poffers[tasks[k].sub]
                 \/ subscribers[tasks[k].sub] = SubObj(tasks[k].sub, k[2])
    /\ \A p \in Players, b \in DOMAIN sent :
           ppc[p] \notin {"as_attach", "as_sdp"}
           => Cardinality({k \in DOMAIN tasks :
                              /\ tasks[k].sub = p
                              /\ <<tasks[k].obj, tasks[k].track>> = b
                              /\ tasks[k].state = "running"}) <= 1

\* C37: in every reachable state the "publishers" counter is the number of
\* entries of the publishers map and the "subscribers" counter the number of
\* entries of the subscribers map.
C37_CountersMatchMaps ==
    /\ metrics.publishers = publishers_len(publishers)
    /\ metrics.subscribers = subscribers_len(subscribers)

\* C38: a step in which a grabber's PING is handled or its receive loop ends
\* changes and removes no registry entry of another session: every name that
\* resolved to another session resolves to the same entry afterwards, also
\* when that session registered the name the grabber had held.
C38_OtherEntriesUntouched ==
    [][\A g \in Grabbers :
           (\/ gin'[g] # gin[g] /\ gin'[g].event = "PING"
            \/ gret'[g] # gret[g] /\ gret'[g].op = "handle_ping"
            \/ gpc[g] = "loop" /\ gpc'[g] = "cleanup")
           => /\ {e \in peers : e.socket_id # g} = {e \in peers' : e.socket_id # g}
              /\ \A n \in Names :
                     (/\ get_peer_by_name(peers, n) # NoPeer
                      /\ get_peer_by_name(peers, n).socket_id # g)
                     => get_peer_by_name(peers', n) = get_peer_by_name(peers, n)]_vars

\* Grabber B registered the name grabber A held and reported one connection;
\* A has since reported two and left, and the name resolves to B's entry with
\* B's count.
C38_Witness ==
    \E a, b \in Grabbers :
        /\ glog = <<a, b>>
        /\ gname[a] = gname[b]
        /\ gin[a] = [event |-> "PING", ping |-> TRUE, connections |-> 2]
        /\ gpc[a] = "closed"
        /\ gpc[b] = "loop"
        /\ get_peer_by_name(peers, gname[b])
               = [name |-> gname[b], socket_id |-> b, connections |-> 1]

\* C39: every add_subscriber call in flight eventually returns, and every
\* handler that has left its loop to call remove_publisher eventually has the
\* call return, also when remove_publisher is called while the add_subscriber
\* call of a player holds its Ref to the same publisher across an await.
C39_FacadeCallsReturn ==
    /\ \A p \in Players :
           (ppc[p] \in {"as_newpc", "as_attach", "as_sdp"}) ~> (ppc[p] = "loop")
    /\ \A g \in Grabbers :
           (gpc[g] \in {"cleanup", "rp_blocked"}) ~> (gpc[g] = "closed")

\* C40: the consumers of an add_subscriber call are for tracks of the
\* snapshot it took, whatever on_track registers afterwards; the session it
\* records maps exactly the tracks of the snapshot, and from then on the
\* consumers of that request are for exactly the mapped tracks; a call whose
\* snapshot was empty succeeds with an empty track mapping and ANSWER is sent.
C40_MappingFixedAtSnapshot ==
    [][\A p \in Players :
           LET Mapped(sess) ==
                   {sess.track_mapping[i][1] : i \in 1..Len(sess.track_mapping)}
               Attached(n) ==
                   {k[3] : k \in {x \in DOMAIN tasks' : x[1] = p /\ x[2] = n}}
           IN /\ ppc'[p] \in {"as_attach", "as_sdp"}
                 => Attached(poffers'[p]) \subseteq pcall'[p].snapshot
              /\ (ppc[p] = "as_sdp" /\ pret'[p] = Ret("add_subscriber", "Ok")
                  /\ ppc'[p] = "loop")
                 => /\ subscribers'[p] = SubObj(p, poffers[p])
                    /\ Mapped(ssess'[subscribers'[p]]) = pcall[p].snapshot
                    /\ pout'[p] = log_send(pout[p], pws[p], "ANSWER")
                    /\ pcall[p].snapshot = {}
                       => ssess'[subscribers'[p]].track_mapping = <<>>
              /\ (subscribers'[p] # NoObj /\ ppc'[p] \notin {"as_attach", "as_sdp"})
                 => Attached(subscribers'[p][2])
                        = Mapped(ssess'[subscribers'[p]])]_vars

\* The publisher has a video and an audio broadcaster; one player, whose
\* OFFER came before any track, was answered with an empty track mapping and
\* has no consumer, and another, whose snapshot had the video track alone,
\* has the one consumer.
C40_Witness ==
    \E p, q \in Players :
        /\ PubObj("g1", 1) \in DOMAIN psess
        /\ psess[PubObj("g1", 1)].broadcasters = {"video", "audio"}
        /\ subscribers[p] = SubObj(p, 1)
        /\ ssess[subscribers[p]].track_mapping = <<>>
        /\ pout[p] = <<"AUTH_REQUEST", "INIT_PEER", "ANSWER">>
        /\ subscribers[q] = SubObj(q, 1)
        /\ ssess[subscribers[q]].track_mapping
               = <<(<<"video", local_track_id("video", q)>>)>>
        /\ DOMAIN tasks = {TaskId(q, 1, "video")}
        /\ ppc[p] = "loop" /\ ppc[q] = "loop"
====
